---------------------------- MODULE Spec2Model ----------------------------
(***************************************************************************)
(* Model of package fasta (src/fasta.go, second listing, lines 208-463):   *)
(* the bufio.Reader based Scanner, the Sequence record and its String      *)
(* serialisation, and the ReadAll loop                                     *)
(*     for sc.ScanSequence() { s = append(s, sc.Sequence()) }              *)
(* Bytes are modelled by their ASCII codes, byte strings by sequences.     *)
(***************************************************************************)
EXTENDS Integers, Sequences, FiniteSets, TLC

\* ------------------------------------------------------------------ bounds
\* longest raw input enumerated byte by byte
MaxLen == 6
\* ScanSequence calls made after the loop has seen false
MaxExtra == 2
\* longest list of records in a canonical file
MaxRecs == 2
\* most lines of an input of the free-form caller
MaxApiLines == 4
\* most Sequence objects the free-form caller retrieves
MaxObjs == 2
\* longest data of the Sequences built from every byte string
MaxData == 3
\* longest buffer d a caller passes to NewSequence
MaxBuf == 2
\* largest line length passed to SetLineLength
MaxWidth == 3
\* calls of methods on one Sequence
MaxCalls == 2
\* Sequences in the slice passed to Concatenate
MaxCat == 3
\* bytes of the data of a Sequence that is complemented by a goroutine
MaxRaceData == 2
\* bytes of an input of the loop that is checked for its end
MaxLiveLen == 3
\* bytes a source gives before it fails
MaxFailLen == 5

\* ------------------------------------------------------- program constants
GT == 62
LF == 10
CR == 13
DefaultLineLength == 70
\* math.MaxInt64, the "unbounded" wrap width; TLC integers are 32 bit wide and
\* no data buffer of the model comes near either value
MaxInt64 == 2147483647

\* two residue codes ('A', 'C'), enough to observe the order of data bytes
Residues == {65, 67}
Bytes == {GT, LF, CR} \cup Residues

\* ------------------------------------------------------------ byte helpers
\* index of the first delim in b, 0 if there is none (ReadBytes' search)
IndexByte(b, delim) ==
    IF \E i \in 1..Len(b) : b[i] = delim
    THEN CHOOSE i \in 1..Len(b) :
            b[i] = delim /\ \A j \in 1..(i - 1) : b[j] # delim
    ELSE 0

\* the place in a byte source at which reading fails: no byte, and the
\* source gives nothing after it but the failure again
FailMark == 256

\* r.ReadBytes('\n'): the bytes up to and including the first delimiter with a
\* nil error; at end of input the bytes read so far and io.EOF; when the
\* source fails before a delimiter, the bytes read so far and that error
ReadBytes(r, delim) ==
    LET i == IndexByte(r, delim)
        e == IndexByte(r, FailMark)
    IN
    IF e > 0 /\ (i = 0 \/ e < i)
    THEN [line |-> SubSeq(r, 1, e - 1), r |-> SubSeq(r, e, Len(r)), err |-> "fail"]
    ELSE IF i > 0
    THEN [line |-> SubSeq(r, 1, i), r |-> SubSeq(r, i + 1, Len(r)), err |-> "nil"]
    ELSE [line |-> r, r |-> <<>>, err |-> "EOF"]

\* a plausible slip: one terminator byte is cut, not the whole run
TrimRightOne(b) ==
    IF Len(b) > 0 /\ b[Len(b)] \in {CR, LF} THEN SubSeq(b, 1, Len(b) - 1) ELSE b

\* a plausible slip: only line feeds are cut
RECURSIVE TrimRightLF(_)
TrimRightLF(b) ==
    IF Len(b) > 0 /\ b[Len(b)] = LF
    THEN TrimRightLF(SubSeq(b, 1, Len(b) - 1))
    ELSE b

\* bytes.TrimRight(b, "\r\n"): cut every trailing CR and LF
RECURSIVE TrimRight(_)
TrimRight(b) ==
    IF Len(b) > 0 /\ b[Len(b)] \in {CR, LF}
    THEN TrimRight(SubSeq(b, 1, Len(b) - 1))
    ELSE b

\* ----------------------------------------------------------------- Scanner
\* NewScanner(r): every field zero but firstSequence
NewScanner(input) ==
    [r |-> input, line |-> <<>>, err |-> "nil", isHeader |-> FALSE,
     lastSequence |-> FALSE, previousHeader |-> <<>>, currentHeader |-> <<>>,
     firstSequence |-> TRUE, data |-> <<>>]

\* <<Found header?>>: the classification of a non-empty line
FoundHeader(line) == line[1] = GT

\* ScanLine: one ReadBytes; false on any error (line kept untrimmed, err
\* recorded); otherwise the trimmed line, classified when non-empty; an empty
\* line returns true as well and leaves isHeader as it was
ScanLine(sc) ==
    LET rd == ReadBytes(sc.r, LF) IN
    IF rd.err # "nil"
    THEN [s |-> [sc EXCEPT !.r = rd.r, !.line = rd.line, !.err = rd.err],
          ok |-> FALSE]
    ELSE LET l == TrimRight(rd.line) IN
         IF Len(l) > 0
         THEN [s |-> [sc EXCEPT !.r = rd.r, !.line = l,
                                !.isHeader = FoundHeader(l)],
               ok |-> TRUE]
         ELSE [s |-> [sc EXCEPT !.r = rd.r, !.line = l, !.err = "nil"],
               ok |-> TRUE]

\* a plausible slip: a file is taken for FASTA whatever it holds
IsFastaAlways(sc) == TRUE

\* <<Dealing with FASTA file?>>: true iff a header was encountered
IsFasta(sc) == ~sc.firstSequence

\* a plausible slip: the line of any failed read joins the data
DealWithAnyError(sc) ==
    IF sc.err # "nil" THEN [sc EXCEPT !.data = sc.data \o sc.line] ELSE sc

\* <<Deal with EOF>>: the bytes of a line ended by EOF join the data
DealWithEOF(sc) ==
    IF sc.err = "EOF" THEN [sc EXCEPT !.data = sc.data \o sc.line] ELSE sc

\* the tail of ScanSequence, after ScanLine has returned false
AtEnd(sc) ==
    LET a == [sc EXCEPT !.lastSequence = TRUE]
        b == DealWithEOF(a)
        c == [b EXCEPT !.previousHeader = b.currentHeader]
    IN [s |-> c, ret |-> IsFasta(c), panic |-> FALSE]

\* a plausible slip: the first header line starts the data afresh
RECURSIVE ScanLoopFresh(_)
ScanLoopFresh(sc) ==
    LET sl == ScanLine(sc)
        t == sl.s
    IN
    IF ~sl.ok THEN AtEnd(t)
    ELSE IF t.isHeader
    THEN LET u == [t EXCEPT !.previousHeader = t.currentHeader] IN
         IF Len(t.line) < 1
         THEN [s |-> u, ret |-> FALSE, panic |-> TRUE]
         ELSE LET v == [u EXCEPT !.currentHeader = Tail(t.line)] IN
              IF v.firstSequence
              THEN ScanLoopFresh([v EXCEPT !.firstSequence = FALSE, !.data = <<>>])
              ELSE [s |-> v, ret |-> TRUE, panic |-> FALSE]
    ELSE ScanLoopFresh([t EXCEPT !.data = t.data \o t.line])

\* the for loop of ScanSequence.  s.Line()[1:] on an empty line is a slice
\* with low bound 1 above its length 0: a run-time panic, raised after
\* previousHeader was assigned
RECURSIVE ScanLoop(_)
ScanLoop(sc) ==
    LET sl == ScanLine(sc)
        t == sl.s
    IN
    IF ~sl.ok THEN AtEnd(t)
    ELSE IF t.isHeader
    THEN LET u == [t EXCEPT !.previousHeader = t.currentHeader] IN
         IF Len(t.line) < 1
         THEN [s |-> u, ret |-> FALSE, panic |-> TRUE]
         ELSE LET v == [u EXCEPT !.currentHeader = Tail(t.line)] IN
              IF v.firstSequence
              THEN ScanLoop([v EXCEPT !.firstSequence = FALSE])
              ELSE [s |-> v, ret |-> TRUE, panic |-> FALSE]
    ELSE ScanLoop([t EXCEPT !.data = t.data \o t.line])

\* a plausible slip: the lastSequence guard is missing
ScanSequenceNoGuard(sc) == ScanLoop(sc)

\* a plausible slip: the buffer is emptied when a call begins
ScanSequenceFresh(sc) ==
    IF sc.lastSequence
    THEN [s |-> sc, ret |-> FALSE, panic |-> FALSE]
    ELSE ScanLoop([sc EXCEPT !.data = <<>>])

\* ScanSequence
ScanSequence(sc) ==
    IF sc.lastSequence
    THEN [s |-> sc, ret |-> FALSE, panic |-> FALSE]
    ELSE ScanLoop(sc)

\* a plausible slip: the header of the record that is still open
SequenceCurrentHeader(sc) ==
    [seq |-> [header |-> sc.currentHeader, data |-> sc.data,
              lineLength |-> DefaultLineLength],
     s |-> [sc EXCEPT !.data = <<>>]]

\* Scanner.Sequence: a fresh record of previousHeader and a copy of the data;
\* the accumulation buffer is emptied
Sequence(sc) ==
    [seq |-> [header |-> sc.previousHeader, data |-> sc.data,
              lineLength |-> DefaultLineLength],
     s |-> [sc EXCEPT !.data = <<>>]]

\* NewSequence(h, d)
NewSequence(h, d) ==
    [header |-> h, data |-> d, lineLength |-> DefaultLineLength]

\* ReadAll: the records of the loop "for sc.ScanSequence() { sc.Sequence() }"
RECURSIVE ReadAllLoop(_, _)
ReadAllLoop(sc, acc) ==
    LET o == ScanSequence(sc) IN
    IF o.panic THEN [seqs |-> acc, panic |-> TRUE]
    ELSE IF o.ret
    THEN LET q == Sequence(o.s) IN ReadAllLoop(q.s, Append(acc, q.seq))
    ELSE [seqs |-> acc, panic |-> FALSE]

ReadAll(input) == ReadAllLoop(NewScanner(input), <<>>)


\* ------------------------------------------------------------------ memory
\* Byte slices as Go has them: a heap of backing arrays (heap[a] holds the
\* bytes of array a, its length is the capacity) and slices [arr, len] into
\* them; arr = 0 is the nil slice.
NilSlice == [arr |-> 0, len |-> 0]
View(h, sl) == IF sl.arr = 0 THEN <<>> ELSE SubSeq(h[sl.arr], 1, sl.len)
Cap(h, sl) == IF sl.arr = 0 THEN 0 ELSE Len(h[sl.arr])

\* append(sl, x...): in place when the capacity suffices, else into a new
\* array (modelled with exactly the capacity needed)
MemAppend(h, sl, x) ==
    IF Len(x) = 0 THEN [heap |-> h, sl |-> sl]
    ELSE IF sl.len + Len(x) <= Cap(h, sl)
    THEN [heap |-> [h EXCEPT ![sl.arr] =
                        [i \in 1..Len(h[sl.arr]) |->
                            IF i > sl.len /\ i <= sl.len + Len(x)
                            THEN x[i - sl.len] ELSE h[sl.arr][i]]],
          sl |-> [sl EXCEPT !.len = sl.len + Len(x)]]
    ELSE [heap |-> Append(h, View(h, sl) \o x),
          sl |-> [arr |-> Len(h) + 1, len |-> sl.len + Len(x)]]

\* make([]byte, len(sl)) and copy: a new array with the bytes of sl
MemCopy(h, sl) ==
    [heap |-> Append(h, View(h, sl)),
     sl |-> [arr |-> Len(h) + 1, len |-> sl.len]]

\* the bytes x written over the first len(x) elements of the slice sl
MemWrite(h, sl, x) ==
    IF Len(x) = 0 THEN h
    ELSE [h EXCEPT ![sl.arr] =
            [i \in 1..Len(h[sl.arr]) |-> IF i <= Len(x) THEN x[i] ELSE h[sl.arr][i]]]

\* a plausible slip: s.data = d, without the copy
NewSequenceMemAlias(h, hd, d) ==
    [heap |-> h,
     obj |-> [header |-> hd, data |-> d, lineLength |-> DefaultLineLength]]

\* NewSequence on the heap: s.data is a slice made for it, with the bytes of d
NewSequenceMem(h, hd, d) ==
    LET c == MemCopy(h, d) IN
    [heap |-> c.heap,
     obj |-> [header |-> hd, data |-> c.sl, lineLength |-> DefaultLineLength]]

\* a plausible slip: seq.data = s.data, without the copy
SequenceMemAlias(h, sdat) ==
    [heap |-> h, data |-> sdat, sdata |-> [sdat EXCEPT !.len = 0]]

\* the buffer side of Scanner.Sequence: seq.data is a copy of s.data, and
\* s.data = s.data[:0] keeps the array
SequenceMem(h, sdat) ==
    LET c == MemCopy(h, sdat) IN
    [heap |-> c.heap, data |-> c.sl, sdata |-> [sdat EXCEPT !.len = 0]]

\* the buffer side of ScanSequence: the bytes the call adds to s.data are
\* appended to the Scanner's slice
ScanSequenceMem(h, sdat, before, after) ==
    MemAppend(h, sdat, SubSeq(after, Len(before) + 1, Len(after)))

\* the header and data of a Sequence object, read through the heap
Val(h, o) ==
    [header |-> o.header, data |-> View(h, o.data), lineLength |-> o.lineLength]

\* --------------------------------------------------------- Sequence.String
\* a plausible slip: the bytes are not compared
EqualsSameLength(a, b) ==
    IF a.header # b.header THEN FALSE
    ELSE Len(a.data) = Len(b.data)

\* Sequence.Equals: same header, same length, same bytes
Equals(a, b) ==
    IF a.header # b.header THEN FALSE
    ELSE IF Len(a.data) # Len(b.data) THEN FALSE
    ELSE a.data = b.data

\* a plausible slip: the length is stored as it comes
SetLineLengthAsIs(l) == l

\* SetLineLength: a length below 1 asks for lines without end
SetLineLength(l) == IF l < 1 THEN MaxInt64 ELSE l

\* a plausible slip: the record is built anew around the longer header
AppendToHeaderAnew(seq, suf) == NewSequence(seq.header \o suf, seq.data)

\* AppendToHeader appends the suffix to the header of the Sequence.
AppendToHeader(seq, suf) == [seq EXCEPT !.header = seq.header \o suf]

\* a plausible slip: the counter c is not set back after a line feed
StringStepNoReset(st, r, w) ==
    IF st.c + 1 = w
    THEN [b |-> st.b \o <<r, LF>>, c |-> st.c + 1]
    ELSE [b |-> Append(st.b, r), c |-> st.c + 1]

\* one pass of the range loop of String for the byte r: b and c before and
\* after
StringStep(st, r, w) ==
    IF st.c + 1 = w
    THEN [b |-> st.b \o <<r, LF>>, c |-> 0]
    ELSE [b |-> Append(st.b, r), c |-> st.c + 1]

\* the passes for d[lo..hi], in order (halved to keep the nesting shallow)
RECURSIVE StringRange(_, _, _, _, _)
StringRange(st, d, w, lo, hi) ==
    IF lo > hi THEN st
    ELSE IF lo = hi THEN StringStep(st, d[lo], w)
    ELSE LET mid == (lo + hi) \div 2
             half == StringRange(st, d, w, lo, mid)
         \* c is never negative: the test has the first half computed first
         IN IF half.c >= 0 THEN StringRange(half, d, w, mid + 1, hi) ELSE half

\* the range loop of String over the data d, from the buffer b0 and c = 0
StringLoop(b0, d, w) == StringRange([b |-> b0, c |-> 0], d, w, 1, Len(d))

\* a plausible slip: the terminal newline is never removed
StringKeepNewline(seq) ==
    StringLoop(<<GT>> \o seq.header \o <<LF>>, seq.data, seq.lineLength).b

\* String: '>' header LF and the data with a line feed after every
\* lineLength bytes; the last byte is removed when the counter c stands at 0
\* after the loop
String(seq) ==
    LET st == StringLoop(<<GT>> \o seq.header \o <<LF>>, seq.data, seq.lineLength)
    IN IF st.c = 0 /\ Len(st.b) > 0 THEN SubSeq(st.b, 1, Len(st.b) - 1) ELSE st.b

\* fmt.Fprintf(out, "%s\n", seq) for every record of a list (TestScanner)
RECURSIVE WriteAll(_)
WriteAll(ss) ==
    IF Len(ss) = 0 THEN <<>> ELSE String(Head(ss)) \o <<LF>> \o WriteAll(Tail(ss))

\* -------------------------------------------------------- Sequence methods
\* d[i], d[j] = d[j], d[i]
Swap(d, i, j) == [d EXCEPT ![i] = d[j], ![j] = d[i]]

\* a plausible slip: the loop stops one swap short of the middle
RECURSIVE ReverseLoopShort(_, _, _)
ReverseLoopShort(d, i, j) ==
    IF i + 2 < j THEN ReverseLoopShort(Swap(d, i, j), i + 1, j - 1) ELSE d

\* Method Reverse, the loop: swaps from both ends while i < j
RECURSIVE ReverseLoop(_, _, _)
ReverseLoop(d, i, j) ==
    IF i < j THEN ReverseLoop(Swap(d, i, j), i + 1, j - 1) ELSE d

\* Method Reverse
Reverse(d) == ReverseLoop(d, 1, Len(d))

\* the tables f and r of Complement
ComplementF ==
    <<65, 67, 71, 84, 85, 87, 83, 77, 75, 82, 89, 66, 68, 72, 86, 78,
      97, 99, 103, 116, 117, 119, 115, 109, 107, 114, 121, 98, 100, 104, 118, 110>>
ComplementR ==
    <<84, 71, 67, 65, 65, 87, 83, 75, 77, 89, 82, 86, 72, 68, 66, 78,
      116, 103, 99, 97, 97, 119, 115, 107, 109, 121, 114, 118, 104, 100, 98, 110>>

\* the number of bytes, the length of dic
ByteCount == 256

\* var dic []byte before the first call of Complement
NilDic == <<>>

\* a plausible slip: only the upper-case half of the table is entered
RECURSIVE DicFillUpperOnly(_, _)
DicFillUpperOnly(dc, i) ==
    IF i > 16 THEN dc
    ELSE DicFillUpperOnly([dc EXCEPT ![ComplementF[i] + 1] = ComplementR[i]], i + 1)

\* for i, v := range f { dic[v] = r[i] }; the byte v is element v + 1
RECURSIVE DicFill(_, _)
DicFill(dc, i) ==
    IF i > Len(ComplementF) THEN dc
    ELSE DicFill([dc EXCEPT ![ComplementF[i] + 1] = ComplementR[i]], i + 1)

\* <<Construct dictionary>>: every byte maps to itself, then the table
ConstructDictionary == DicFill([v \in 1..ByteCount |-> v - 1], 1)

\* a plausible slip: a dictionary that is there is built again from its own
\* entries
DicAfterRebuilt(dc) ==
    IF dc = NilDic THEN ConstructDictionary
    ELSE [v \in 1..ByteCount |-> dc[dc[v] + 1]]

\* dic after "if dic == nil { <<Construct dictionary>> }"
DicAfter(dc) == IF dc = NilDic THEN ConstructDictionary ELSE dc

\* <<Construct complement>>: s.data[i] = dic[v]
ComplementLoop(dc, d) == [i \in 1..Len(d) |-> dc[d[i] + 1]]

\* Method Complement: dic and s.data after the call
Complement(dc, d) ==
    [dic |-> DicAfter(dc), data |-> ComplementLoop(DicAfter(dc), d)]

\* a plausible slip: the call of Complement is left out
ReverseOnly(dc, d) == [dic |-> dc, data |-> Reverse(d)]

\* Method ReverseComplement: s.Reverse(); s.Complement()
ReverseComplement(dc, d) == Complement(dc, Reverse(d))

\* a plausible slip: the swap overwrites one of the two elements
ShuffleFromLossy(d, i) ==
    IF i <= 1 THEN {d} ELSE {[d EXCEPT ![i] = d[j]] : j \in 1..i}

\* rand.Shuffle(n, swap) from index i down: swap(i, j) with a random j <= i
RECURSIVE ShuffleFrom(_, _)
ShuffleFrom(d, i) ==
    IF i <= 1 THEN {d}
    ELSE UNION {ShuffleFrom(Swap(d, i, j), i - 1) : j \in 1..i}

\* Method Shuffle: the data a random source can leave
Shuffle(d) == ShuffleFrom(d, Len(d))

\* Method Length
Length(d) == Len(d)

\* float64 division a / b of two counts
FloatDiv(a, b) ==
    [class |-> IF b # 0 THEN "finite" ELSE IF a = 0 THEN "NaN" ELSE "Inf",
     num |-> a, den |-> b]

\* a plausible slip: g and c count as well
GCLoopAnyCase(d, k, gc) ==
    Cardinality({i \in 1..Len(d) : d[i] \in {71, 67, 103, 99}})

\* Method GC, the loop: gc++ for every 'G' and every 'C'
RECURSIVE GCLoop(_, _, _)
GCLoop(d, k, gc) ==
    IF k > Len(d) THEN gc
    ELSE GCLoop(d, k + 1, IF d[k] = 71 \/ d[k] = 67 THEN gc + 1 ELSE gc)

\* Method GC
GC(d) == FloatDiv(GCLoop(d, 1, 0), Length(d))

\* the bytes Clean keeps: A, C, G, T, a, c, g, t
IsCanonical(c) == c \in {65, 67, 71, 84, 97, 99, 103, 116}

\* a plausible slip: the kept byte is not moved to the front
CleanLoopNoMove(d, k, i) ==
    SubSeq(d, 1, Cardinality({j \in 1..Len(d) : IsCanonical(d[j])}))

\* Method Clean, the loop: the k-th byte is read, and written to place i + 1
\* of the same array when it is kept; d[:i] in the end
RECURSIVE CleanLoop(_, _, _)
CleanLoop(d, k, i) ==
    IF k > Len(d) THEN SubSeq(d, 1, i)
    ELSE IF IsCanonical(d[k])
    THEN CleanLoop([d EXCEPT ![i + 1] = d[k]], k + 1, i + 1)
    ELSE CleanLoop(d, k + 1, i)

\* Method Clean
Clean(d) == CleanLoop(d, 1, 0)

\* the first byte value that is no ASCII code (utf8.RuneSelf)
RuneSelf == 128
\* the UTF-8 encoding of U+FFFD, the rune an undecodable byte is read as
RuneError == <<239, 191, 189>>

UpperByte(c) == IF c >= 97 /\ c <= 122 THEN c - 32 ELSE c

\* a plausible slip: the letters are mapped the other way
ToLower(d) == [i \in 1..Len(d) |-> IF d[i] >= 65 /\ d[i] <= 90 THEN d[i] + 32 ELSE d[i]]

\* bytes.Map(unicode.ToUpper, d): an ASCII byte is mapped; the three bytes
\* of U+FFFD are one rune, which has no upper case; any other byte from 128
\* on is read as U+FFFD (so it is for a byte that begins no UTF-8 encoding;
\* the inputs hold no other)
RECURSIVE MapUpper(_)
MapUpper(d) ==
    IF Len(d) = 0 THEN <<>>
    ELSE IF Head(d) < RuneSelf THEN <<UpperByte(Head(d))>> \o MapUpper(Tail(d))
    ELSE IF Len(d) >= 3 /\ SubSeq(d, 1, 3) = RuneError
    THEN RuneError \o MapUpper(SubSeq(d, 4, Len(d)))
    ELSE RuneError \o MapUpper(Tail(d))

\* bytes.ToUpper: byte for byte when all bytes are ASCII, else rune for rune
ToUpper(d) ==
    IF \A i \in 1..Len(d) : d[i] < RuneSelf
    THEN [i \in 1..Len(d) |-> UpperByte(d[i])]
    ELSE MapUpper(d)

\* <<Perform the concatenation>>, the loop from element i on
RECURSIVE ConcatenateLoop(_, _, _, _, _)
ConcatenateLoop(seqSlice, sentinel, h, d, i) ==
    IF i > Len(seqSlice) THEN [h |-> h, d |-> d]
    ELSE LET hs == IF sentinel # 0 THEN Append(h, sentinel) ELSE h
             ds == IF sentinel # 0 THEN Append(d, sentinel) ELSE d
         IN ConcatenateLoop(seqSlice, sentinel, hs \o seqSlice[i].header,
                            ds \o seqSlice[i].data, i + 1)

\* the line Concatenate writes to os.Stderr for an empty slice
EmptySliceMessage == "fasta.Concatenate: the input slice is empty"

\* return nil, after the line on stderr
ConcatenateNil ==
    [kind |-> "nil", seq |-> NewSequence(<<>>, <<>>), stderr |-> <<EmptySliceMessage>>]

\* a plausible slip: the sentinel goes after every piece
ConcatenateTrailing(seqSlice, sentinel) ==
    IF Len(seqSlice) > 1
    THEN LET o == ConcatenateLoop(seqSlice, sentinel, seqSlice[1].header,
                                  seqSlice[1].data, 2)
         IN [kind |-> "new",
             seq |-> NewSequence(IF sentinel # 0 THEN Append(o.h, sentinel) ELSE o.h,
                                 IF sentinel # 0 THEN Append(o.d, sentinel) ELSE o.d),
             stderr |-> <<>>]
    ELSE IF Len(seqSlice) = 1
    THEN [kind |-> "same", seq |-> seqSlice[1], stderr |-> <<>>]
    ELSE ConcatenateNil

\* a plausible slip: an empty slice gives an empty Sequence, and no line on
\* stderr
ConcatenateEmptyNew(seqSlice, sentinel) ==
    IF Len(seqSlice) > 1
    THEN LET o == ConcatenateLoop(seqSlice, sentinel, seqSlice[1].header,
                                  seqSlice[1].data, 2)
         IN [kind |-> "new", seq |-> NewSequence(o.h, o.d), stderr |-> <<>>]
    ELSE IF Len(seqSlice) = 1
    THEN [kind |-> "same", seq |-> seqSlice[1], stderr |-> <<>>]
    ELSE [kind |-> "new", seq |-> NewSequence(<<>>, <<>>), stderr |-> <<>>]

\* a plausible slip: the loop runs for one element as well, so that the
\* result is a copy from NewSequence
ConcatenateCopyOne(seqSlice, sentinel) ==
    IF Len(seqSlice) >= 1
    THEN LET o == ConcatenateLoop(seqSlice, sentinel, seqSlice[1].header,
                                  seqSlice[1].data, 2)
         IN [kind |-> "new", seq |-> NewSequence(o.h, o.d), stderr |-> <<>>]
    ELSE ConcatenateNil

\* Concatenate: what it returns and what it writes to stderr. kind tells
\* which object the returned pointer is: "new" a Sequence from NewSequence
\* (l > 1), "same" the element seqSlice[0] itself (l == 1), "nil" no object
\* (default)
Concatenate(seqSlice, sentinel) ==
    IF Len(seqSlice) > 1
    THEN LET o == ConcatenateLoop(seqSlice, sentinel, seqSlice[1].header,
                                  seqSlice[1].data, 2)
         IN [kind |-> "new", seq |-> NewSequence(o.h, o.d), stderr |-> <<>>]
    ELSE IF Len(seqSlice) = 1
    THEN [kind |-> "same", seq |-> seqSlice[1], stderr |-> <<>>]
    ELSE ConcatenateNil

\* ------------------------------------------------------------------ inputs
\* every byte string of at most MaxLen bytes
RawInputs == UNION {[1..n -> Bytes] : n \in 0..MaxLen}

\* residue data of length n in which neighbours differ
Pattern(n) == [i \in 1..n |-> IF i % 2 = 1 THEN 65 ELSE 67]

\* records for canonical files: data lengths around the default line length
CanonSeqs ==
    {NewSequence(h, Pattern(n)) :
        h \in {<<>>, <<65>>}, n \in {0, 1, DefaultLineLength, DefaultLineLength + 1}}
CanonLists == UNION {[1..n -> CanonSeqs] : n \in 1..MaxRecs}
\* the files written by WriteAll, and the same files without the final line feed
CanonInputs == {WriteAll(rs) : rs \in CanonLists}
CanonInputsNoLF == {SubSeq(f, 1, Len(f) - 1) : f \in CanonInputs}

\* records for the round trip: every wrap width class against short and long data
RTSeqs ==
    {[header |-> h, data |-> Pattern(n), lineLength |-> w] :
        h \in {<<>>, <<65>>, <<67, GT>>},
        n \in {0, 1, 2, 3, DefaultLineLength + 1},
        w \in {1, 2, DefaultLineLength, MaxInt64}}
RTInputs == {String(sq) : sq \in RTSeqs}

Inputs == RawInputs \cup CanonInputs \cup CanonInputsNoLF \cup RTInputs

\* ------------------------------------------------------------------- state
VARIABLES
    input,  \* the whole content of the byte source the Scanner was bound to
    s,      \* the Scanner (s.r: the bytes not yet read)
    ret,    \* result of the last ScanSequence call: "none", "true", "false"
    seqs,   \* the records retrieved so far (ReadAll's slice), as returned
    pc,     \* the caller's position: "scan", "retrieve", "done", "panic";
            \* for the free-form caller the last call of ScanSequence or
            \* Sequence
    extra,  \* ScanSequence calls made after the loop ended
    heap,   \* the backing arrays of the byte slices
    sdata,  \* the slice s.data of the Scanner
    objs,   \* the Sequence objects the caller holds: header, data slice,
            \* lineLength
    lines,  \* Line() and IsHeader() after every ScanLine call that was true
    flushed,\* the results of the Flush calls
    args,   \* the header h and the slice d a caller passes to NewSequence
    res,    \* the method called last on a Sequence, and its result
    dic     \* the package variable dic of Complement

vars == <<input, s, ret, seqs, pc, extra, heap, sdata, objs, lines, flushed,
          args, res, dic>>
memvars == <<heap, sdata, objs>>
linevars == <<lines, flushed>>
seqvars == <<args, res>>
\* the state of a caller that has no Scanner
NoScanner == input = <<>> /\ s = NewScanner(<<>>) /\ ret = "none" /\ extra = 0
NoArgs == [h |-> <<>>, d |-> NilSlice]
NoRes == [op |-> "none", val |-> <<>>]

Init ==
    /\ input \in Inputs
    /\ s = NewScanner(input)
    /\ ret = "none"
    /\ seqs = <<>>
    /\ pc = "scan"
    /\ extra = 0
    /\ heap = <<>>
    /\ sdata = NilSlice
    /\ objs = <<>>
    /\ lines = <<>>
    /\ flushed = <<>>
    /\ args = NoArgs
    /\ res = NoRes
    /\ dic = NilDic

\* the caller invokes ScanSequence: as the loop condition, or again after the
\* loop has ended
CallScanSequence ==
    /\ pc = "scan" \/ (pc = "done" /\ extra < MaxExtra)
    /\ LET o == ScanSequence(s) IN
       /\ s' = o.s
       /\ ret' = IF o.panic THEN ret ELSE IF o.ret THEN "true" ELSE "false"
       /\ pc' = IF o.panic THEN "panic" ELSE IF o.ret THEN "retrieve" ELSE "done"
    /\ extra' = IF pc = "done" THEN extra + 1 ELSE extra
    /\ UNCHANGED <<dic, input, seqs, memvars, linevars, seqvars>>

\* the loop body: s = append(s, sc.Sequence())
CallSequence ==
    /\ pc = "retrieve"
    /\ LET q == Sequence(s) IN
       /\ s' = q.s
       /\ seqs' = Append(seqs, q.seq)
    /\ pc' = "scan"
    /\ UNCHANGED <<dic, input, ret, extra, memvars, linevars, seqvars>>

Next == CallScanSequence \/ CallSequence

Spec == Init /\ [][Next]_vars

\* the stepwise run and the ReadAll operator agree
RunIsReadAll ==
    /\ pc = "done" => (seqs = ReadAll(input).seqs /\ ~ReadAll(input).panic)
    /\ pc = "panic" => (seqs = ReadAll(input).seqs /\ ReadAll(input).panic)


\* ---------------------------------------------- the wire format, as stated
\* the lines of a byte string: the bytes between line feeds, and the bytes
\* after the last line feed when there are any
RECURSIVE RawLines(_)
RawLines(b) ==
    IF Len(b) = 0 THEN <<>>
    ELSE LET i == IndexByte(b, LF) IN
         IF i = 0 THEN <<b>>
         ELSE <<SubSeq(b, 1, i - 1)>> \o RawLines(SubSeq(b, i + 1, Len(b)))

\* a line without the CR of a CR LF line break
StripCR(l) ==
    IF Len(l) > 0 /\ l[Len(l)] = CR THEN SubSeq(l, 1, Len(l) - 1) ELSE l

\* every CR of the input is the first byte of a CR LF line break
CROnlyInBreaks(b) ==
    \A i \in 1..Len(b) : b[i] = CR => (i < Len(b) /\ b[i + 1] = LF)

\* the lines of the wire format: line breaks are LF or CR LF
Lines(b) == [i \in 1..Len(RawLines(b)) |-> StripCR(RawLines(b)[i])]

IsHeaderLine(l) == Len(l) > 0 /\ l[1] = GT
IsDataLine(l) == Len(l) > 0 /\ l[1] # GT
HasHeaderLine(b) == \E i \in 1..Len(Lines(b)) : IsHeaderLine(Lines(b)[i])
EndsWithBreak(b) == Len(b) > 0 /\ b[Len(b)] = LF

\* the records the wire format assigns to a list of lines: a header line
\* opens a record, a data line extends the data of the open record
RECURSIVE RefFold(_, _)
RefFold(ls, acc) ==
    IF Len(ls) = 0 THEN acc
    ELSE LET l == Head(ls) IN
         IF IsHeaderLine(l)
         THEN RefFold(Tail(ls), Append(acc, NewSequence(Tail(l), <<>>)))
         ELSE IF Len(l) = 0 \/ Len(acc) = 0 THEN RefFold(Tail(ls), acc)
         ELSE RefFold(Tail(ls),
                      [acc EXCEPT ![Len(acc)].data = acc[Len(acc)].data \o l])
RefRecords(b) == RefFold(Lines(b), <<>>)

\* an input that conforms to the wire format: line breaks are LF or CR LF and
\* the first line that is not blank is a header line
Conforming(b) ==
    /\ CROnlyInBreaks(b)
    /\ \A i \in 1..Len(Lines(b)) :
          IsDataLine(Lines(b)[i]) =>
              \E j \in 1..(i - 1) : IsHeaderLine(Lines(b)[j])

\* the loop has come to its end, one way or the other
Ended == pc \in {"done", "panic"}

\* ------------------------------------------------------------------ claims

\* C1: for every input that conforms to the wire format, the ReadAll loop
\* ends normally and yields exactly the records of the wire format: one per
\* header line, in order, with the header text and the concatenated data
\* lines up to the next header line.
C1_LoopYieldsWireRecords ==
    (Ended /\ Conforming(input)) => (pc = "done" /\ seqs = RefRecords(input))

\* C2: scanning a file written at the default line length and writing every
\* record followed by a line feed reproduces the file; for the same file
\* without its final line feed the output is the file plus one line feed.
C2_ScanThenWriteReproduces ==
    /\ (Ended /\ input \in CanonInputs) =>
          (pc = "done" /\ WriteAll(seqs) = input)
    /\ (Ended /\ input \in CanonInputsNoLF) =>
          (pc = "done" /\ WriteAll(seqs) = input \o <<LF>>)

\* C3: scanning String() of any Sequence sq yields exactly one record, equal
\* to sq and with the default line length.
C3_RoundTrip ==
    (Ended /\ input \in RTInputs) =>
        \A sq \in RTSeqs :
            input = String(sq) =>
                /\ pc = "done"
                /\ Len(seqs) = 1
                /\ Equals(seqs[1], sq)
                /\ seqs[1].lineLength = DefaultLineLength

\* positions between lines: the start of the input and behind every line feed
LineStarts(b) == {p \in 1..(Len(b) + 1) : p = 1 \/ b[p - 1] = LF}

\* C4: an empty line inserted between lines, also directly after a header
\* line, changes nothing: the loop on the input with the empty line ends
\* normally with the records of the input without it.
C4_BlankLinesIgnored ==
    Ended =>
        \A p \in 1..Len(input) :
            (input[p] = LF /\ p \in LineStarts(input)) =>
                LET base == SubSeq(input, 1, p - 1)
                                \o SubSeq(input, p + 1, Len(input))
                IN /\ pc = "done"
                   /\ ~ReadAll(base).panic
                   /\ seqs = ReadAll(base).seqs

\* the bytes of the input the Scanner has read so far
Consumed == SubSeq(input, 1, Len(input) - Len(s.r))

\* C5: ScanSequence returns true only if the bytes read so far hold a header
\* line; on an input without any header line the first call returns false and
\* no record is ever produced.
C5_TrueOnlyAfterHeader ==
    /\ ret = "true" => HasHeaderLine(Consumed)
    /\ ~HasHeaderLine(input) =>
          /\ pc \in {"scan", "done"}
          /\ ret \in {"none", "false"}
          /\ pc = "scan" => ret = "none"
          /\ seqs = <<>>

\* an input without header line has been scanned to its end
C5_Witness ==
    /\ ~HasHeaderLine(input)
    /\ \E i \in 1..Len(input) : input[i] \in Residues
    /\ \E i \in 1..Len(input) : input[i] = LF /\ i \in LineStarts(input)
    /\ pc = "done"
    /\ ret = "false"

\* the text between '>' and the line break (LF or CR LF) that ends b
HeaderOnlyText(b) ==
    SubSeq(b, 2, IF b[Len(b) - 1] = CR THEN Len(b) - 2 ELSE Len(b) - 1)
\* the inputs of exactly one header line and its line break
IsHeaderOnly(b) ==
    /\ Len(b) >= 2
    /\ b[1] = GT
    /\ b[Len(b)] = LF
    /\ \A i \in 1..Len(HeaderOnlyText(b)) : HeaderOnlyText(b)[i] \notin {CR, LF}

\* C6: one header line with its line break and nothing else yields exactly
\* one record, of the header text (which may be empty) and empty data; the
\* ScanSequence call after it returns false.
C6_HeaderOnlyInput ==
    IsHeaderOnly(input) =>
        /\ pc # "panic"
        /\ Len(seqs) <= 1
        /\ ret = "false" => Len(seqs) = 1
        /\ pc = "retrieve" => (seqs = <<>> /\ ret = "true")
        /\ Len(seqs) = 1 =>
              /\ seqs[1].header = HeaderOnlyText(input)
              /\ seqs[1].data = <<>>
              /\ pc = "done" => ret = "false"

\* both kinds of header-only input have been read to the end
C6_Witness ==
    /\ IsHeaderOnly(input)
    /\ pc = "done"
    /\ Len(seqs) = 1
    /\ Len(seqs[1].header) > 0

\* the number of header lines among the first i lines
HeadersUpTo(ls, i) == Cardinality({j \in 1..i : IsHeaderLine(ls[j])})
\* the data lines that follow line i up to the next header line, concatenated
RECURSIVE DataAfter(_, _)
DataAfter(ls, i) ==
    IF i + 1 > Len(ls) \/ IsHeaderLine(ls[i + 1]) THEN <<>>
    ELSE ls[i + 1] \o DataAfter(ls, i + 1)

\* C7: when a header line is immediately followed by another header line, the
\* loop emits a record with the first header and empty data, and the data
\* lines after the second header are the data of the second record.
C7_ConsecutiveHeaders ==
    (Ended /\ CROnlyInBreaks(input)) =>
        LET ls == Lines(input) IN
        \A i \in 1..(Len(ls) - 1) :
            (IsHeaderLine(ls[i]) /\ IsHeaderLine(ls[i + 1])) =>
                LET k == HeadersUpTo(ls, i) IN
                /\ Len(seqs) >= k + 1
                /\ seqs[k].header = Tail(ls[i])
                /\ seqs[k].data = <<>>
                /\ seqs[k + 1].header = Tail(ls[i + 1])
                /\ seqs[k + 1].data = DataAfter(ls, i + 1)

\* the last line of the input starts with a residue and no line feed follows it
OpenDataLine(b) ==
    /\ Len(b) > 0
    /\ ~EndsWithBreak(b)
    /\ RawLines(b)[Len(RawLines(b))][1] \in Residues

\* C8: when the final data line has no line break, the loop yields the
\* records it yields for the same input with a line break appended.
C8_OpenFinalLineKept ==
    (Ended /\ OpenDataLine(input)) =>
        /\ pc = "done" <=> ~ReadAll(input \o <<LF>>).panic
        /\ seqs = ReadAll(input \o <<LF>>).seqs

\* the last header line of a list of lines
LastHeader(ls) ==
    ls[CHOOSE i \in 1..Len(ls) :
          IsHeaderLine(ls[i]) /\ \A j \in (i + 1)..Len(ls) : ~IsHeaderLine(ls[j])]

\* C9: for every input with a header line the loop ends normally, and the
\* last record it has emitted carries the text of the last header line, also
\* when that line ends the input without a line break.
C9_LastRecordEmitted ==
    (Ended /\ CROnlyInBreaks(input) /\ HasHeaderLine(input)) =>
        /\ pc = "done"
        /\ Len(seqs) >= 1
        /\ seqs[Len(seqs)].header = Tail(LastHeader(Lines(input)))

\* C10: once ScanSequence has returned false, or true for the record closed
\* by the end of the input (the read has reported io.EOF, lastSequence is
\* set), every further call returns false and leaves the whole Scanner,
\* unread input included, as it was.
C10_ExhaustionPermanent ==
    [][(CallScanSequence
            /\ (ret = "false" \/ s.lastSequence \/ (ret = "true" /\ s.err = "EOF")))
        => (ret' = "false" /\ pc' = "done" /\ s' = s)]_vars

\* calls after the end: after false on an input with records whose final
\* line was open, and after false on an input without header line
C10_Witness ==
    /\ extra = MaxExtra
    /\ ret = "false"
    /\ Len(seqs) >= 1
    /\ Len(s.line) > 0
    /\ s.err = "EOF"

\* ------------------------------------------------------ free-form caller
\* the lines of the inputs of the free-form caller
ApiLineKinds == {<<GT>>, <<GT, 65>>, <<67, 65>>}

RECURSIVE JoinLines(_)
JoinLines(ls) ==
    IF Len(ls) = 0 THEN <<>> ELSE Head(ls) \o <<LF>> \o JoinLines(Tail(ls))

WithoutLast(b) == SubSeq(b, 1, Len(b) - 1)

ApiFiles ==
    {JoinLines(ls) : ls \in UNION {[1..n -> ApiLineKinds] : n \in 0..MaxApiLines}}

\* files of up to MaxApiLines lines, with and without the final line break
ApiInputs == ApiFiles \cup {WithoutLast(b) : b \in ApiFiles}

\* A caller that calls ScanSequence, Sequence and ScanLine in any order and
\* reverses records it holds.
InitAPI ==
    /\ input \in ApiInputs
    /\ s = NewScanner(input)
    /\ ret = "none"
    /\ seqs = <<>>
    /\ pc = "start"
    /\ extra = 0
    /\ heap = <<>>
    /\ sdata = NilSlice
    /\ objs = <<>>
    /\ lines = <<>>
    /\ flushed = <<>>
    /\ args = NoArgs
    /\ res = NoRes
    /\ dic = NilDic

ApiScanSequence ==
    /\ pc # "panic"
    /\ LET o == ScanSequence(s)
           m == ScanSequenceMem(heap, sdata, s.data, o.s.data)
       IN /\ s' = o.s
          /\ heap' = m.heap
          /\ sdata' = m.sl
          /\ IF o.panic
             THEN pc' = "panic" /\ ret' = "none"
             ELSE pc' = "ScanSequence" /\ ret' = (IF o.ret THEN "true" ELSE "false")
    /\ UNCHANGED <<dic, input, seqs, extra, objs, linevars, seqvars>>

ApiSequence ==
    /\ pc # "panic"
    /\ Len(objs) < MaxObjs
    /\ LET o == Sequence(s)
           m == SequenceMem(heap, sdata)
       IN /\ s' = o.s
          /\ seqs' = Append(seqs, o.seq)
          /\ heap' = m.heap
          /\ sdata' = m.sdata
          /\ objs' = Append(objs, [header |-> o.seq.header, data |-> m.data,
                                   lineLength |-> o.seq.lineLength])
    /\ pc' = "Sequence"
    /\ UNCHANGED <<dic, input, ret, extra, linevars, seqvars>>

ApiScanLine ==
    /\ pc # "panic"
    /\ s' = ScanLine(s).s
    /\ UNCHANGED <<dic, input, ret, seqs, pc, extra, memvars, linevars, seqvars>>

\* objs[k].Reverse()
ApiReverse(k) ==
    /\ pc # "panic"
    /\ k \in 1..Len(objs)
    /\ heap' = MemWrite(heap, objs[k].data, Reverse(View(heap, objs[k].data)))
    /\ UNCHANGED <<dic, input, s, ret, seqs, pc, extra, sdata, objs, linevars, seqvars>>

NextAPI ==
    \/ ApiScanSequence
    \/ ApiSequence
    \/ ApiScanLine
    \/ \E k \in 1..MaxObjs : ApiReverse(k)

SpecAPI == InitAPI /\ [][NextAPI]_vars

\* the slice s.data holds the bytes of the accumulation buffer
SDataIsBuffer == pc # "panic" => View(heap, sdata) = s.data

\* C11: a Sequence call returns a new Sequence object with the previous
\* header, the bytes of the accumulation buffer and wrap width 70; it empties
\* the buffer and leaves both header fields as they were; a Sequence call
\* with no ScanSequence call since the last one returns the same header with
\* empty data.
C11_SequenceReturnsPreviousHeader ==
    [][ApiSequence =>
        LET r == seqs'[Len(seqs')]
            o == objs'[Len(objs')]
        IN /\ r.header = s.previousHeader
           /\ r.data = s.data
           /\ r.lineLength = DefaultLineLength
           /\ Val(heap', o) = r
           /\ o.data.arr \notin ({sdata.arr} \cup {objs[k].data.arr : k \in 1..Len(objs)})
           /\ s'.data = <<>>
           /\ View(heap', sdata') = <<>>
           /\ s'.previousHeader = s.previousHeader
           /\ s'.currentHeader = s.currentHeader
           /\ (pc = "Sequence" =>
                  r.header = seqs[Len(seqs)].header /\ r.data = <<>>)]_vars

\* ScanSequence returned true at a header line, the record was retrieved
\* with its data, and a second Sequence call returned the same header with
\* empty data
C11_Witness ==
    /\ pc = "Sequence"
    /\ ret = "true"
    /\ Len(seqs) = 2
    /\ Len(seqs[1].data) > 0
    /\ seqs[2] = [seqs[1] EXCEPT !.data = <<>>]
    /\ s.currentHeader # s.previousHeader

\* C16: no call of ScanLine, ScanSequence or Sequence changes the header or
\* the data of a record retrieved before; reversing a record in place
\* changes neither the Scanner's buffer nor any other record; and every
\* record is retrieved with the bytes the Scanner accumulated.
C16_NoAliasing ==
    [][/\ (ApiScanLine \/ ApiScanSequence \/ ApiSequence) =>
            \A k \in 1..Len(objs) : Val(heap', objs'[k]) = Val(heap, objs[k])
       /\ \A k \in 1..Len(objs) :
            ApiReverse(k) =>
                /\ View(heap', sdata') = View(heap, sdata)
                /\ \A j \in (1..Len(objs)) \ {k} :
                      Val(heap', objs'[j]) = Val(heap, objs[j])
       /\ ApiSequence => Val(heap', objs'[Len(objs')]) = Sequence(s).seq]_vars

\* a record was retrieved and reversed, the Scanner went on to the next
\* record, and that record was retrieved with its data
C16_Witness ==
    /\ Len(objs) >= 2
    /\ Len(seqs[1].data) > 1
    /\ View(heap, objs[1].data) = Reverse(seqs[1].data)
    /\ View(heap, objs[1].data) # seqs[1].data
    /\ Len(seqs[2].data) > 0 /\ seqs[2].data[1] \in Residues
    /\ View(heap, objs[2].data) = seqs[2].data
    /\ s.lastSequence

\* --------------------------------------------------------- line-level API
\* a plausible slip: the unterminated bytes are dropped
FlushNothing(sc) == <<>>

\* Scanner.Flush: the line of the last read when that read ended at end of
\* input, else nothing
Flush(sc) == IF sc.err = "EOF" THEN sc.line ELSE <<>>

\* The caller of TestFlush: ScanLine until it returns false, then Flush.
InitLines ==
    /\ input \in Inputs
    /\ s = NewScanner(input)
    /\ ret = "none"
    /\ seqs = <<>>
    /\ pc = "line"
    /\ extra = 0
    /\ heap = <<>>
    /\ sdata = NilSlice
    /\ objs = <<>>
    /\ lines = <<>>
    /\ flushed = <<>>
    /\ args = NoArgs
    /\ res = NoRes
    /\ dic = NilDic

\* for sc.ScanLine() { g += len(sc.Line()) }
CallScanLine ==
    /\ pc = "line"
    /\ LET o == ScanLine(s) IN
       /\ s' = o.s
       /\ IF o.ok
          THEN /\ lines' = Append(lines, [line |-> o.s.line,
                                          isHeader |-> o.s.isHeader])
               /\ pc' = "line"
          ELSE /\ lines' = lines
               /\ pc' = "flush"
    /\ UNCHANGED <<dic, input, ret, seqs, extra, memvars, flushed, seqvars>>

\* g += len(sc.Flush())
CallFlush ==
    /\ pc = "flush"
    /\ flushed' = Append(flushed, Flush(s))
    /\ pc' = "flushed"
    /\ UNCHANGED <<dic, input, s, ret, seqs, extra, memvars, lines, seqvars>>

NextLines == CallScanLine \/ CallFlush

SpecLines == InitLines /\ [][NextLines]_vars

\* the same loop as a function of the input: the lines of the true results
\* and the result of Flush
RECURSIVE ScanLinesLoop(_, _)
ScanLinesLoop(sc, acc) ==
    LET o == ScanLine(sc) IN
    IF o.ok THEN ScanLinesLoop(o.s, Append(acc, o.s.line))
    ELSE [lines |-> acc, flush |-> Flush(o.s)]

RECURSIVE SumLen(_)
SumLen(ls) == IF Len(ls) = 0 THEN 0 ELSE Len(Head(ls)) + SumLen(Tail(ls))

\* g of TestFlush for the input b
LineTotal(b) ==
    LET o == ScanLinesLoop(NewScanner(b), <<>>) IN SumLen(o.lines) + Len(o.flush)

\* byte i of b is a line-terminator byte: an LF, or a CR of the run of CR
\* bytes that stands directly before an LF
IsTerminator(b, i) ==
    \/ b[i] = LF
    \/ /\ b[i] = CR
       /\ \E j \in (i + 1)..Len(b) :
            b[j] = LF /\ \A k \in i..(j - 1) : b[k] = CR

\* the bytes of b after its last LF (all of b when it has none)
AfterLastLF(b) ==
    LET P == {i \in 1..Len(b) : b[i] = LF}
        m == IF P = {} THEN 0 ELSE CHOOSE i \in P : \A j \in P : j <= i
    IN SubSeq(b, m + 1, Len(b))

RECURSIVE DropCRs(_)
DropCRs(b) ==
    IF Len(b) > 0 /\ b[Len(b)] = CR THEN DropCRs(SubSeq(b, 1, Len(b) - 1)) ELSE b

\* b without its final line break, when it ends with one
WithoutFinalBreak(b) ==
    IF EndsWithBreak(b) THEN DropCRs(SubSeq(b, 1, Len(b) - 1)) ELSE b

\* C12: every true result of ScanLine leaves a non-empty line without
\* trailing CR or LF, classified as a header exactly when its first byte is
\* '>'; and ScanLine has returned false only with the input exhausted.
C12_TrueMeansNonEmptyLine ==
    /\ \A k \in 1..Len(lines) :
          /\ Len(lines[k].line) > 0
          /\ TrimRight(lines[k].line) = lines[k].line
          /\ (lines[k].isHeader <=> lines[k].line[1] = GT)
    /\ (pc \in {"flush", "flushed"} => (s.err = "EOF" /\ Len(s.r) = 0))

\* C13: after the loop and the Flush call, Flush has returned the bytes after
\* the last LF of the input; the lengths of the lines and of the flushed
\* bytes add up to the number of bytes of the input that are no
\* line-terminator bytes; and the input without its final line break gives
\* the same total.
C13_FlushByteAccounting ==
    pc = "flushed" =>
        LET f == flushed[Len(flushed)]
            g == SumLen([k \in 1..Len(lines) |-> lines[k].line]) + Len(f)
        IN /\ f = AfterLastLF(input)
           /\ g = Cardinality({i \in 1..Len(input) : ~IsTerminator(input, i)})
           /\ g = LineTotal(input)
           /\ g = LineTotal(WithoutFinalBreak(input))

\* the loop has ended on a CR LF input of several lines, and on one with
\* bytes after the last LF
C13_Witness ==
    /\ pc = "flushed"
    /\ Len(lines) >= 2
    /\ \E k \in 1..Len(lines) : Len(lines[k].line) > 0
    /\ \E i \in 1..Len(input) : input[i] = CR /\ IsTerminator(input, i)
    /\ Len(flushed[1]) > 0

\* ------------------------------------------------------- line-break style
\* every LF of b replaced by CR LF
RECURSIVE ToCRLF(_)
ToCRLF(b) ==
    IF Len(b) = 0 THEN <<>>
    ELSE (IF Head(b) = LF THEN <<CR, LF>> ELSE <<Head(b)>>) \o ToCRLF(Tail(b))

NoCR(b) == \A i \in 1..Len(b) : b[i] # CR

\* C14: a finished run over an input with LF line breaks has retrieved the
\* records, and ended in the way, that the loop gives on the same input
\* with every LF replaced by CR LF.
C14_CRLFSameRecords ==
    (Ended /\ NoCR(input)) =>
        LET o == ReadAll(ToCRLF(input)) IN
        /\ o.seqs = seqs
        /\ o.panic = (pc = "panic")

\* a finished run over several LF-terminated lines that retrieved a record
\* with data
C14_Witness ==
    /\ pc = "done"
    /\ NoCR(input)
    /\ Cardinality({i \in 1..Len(input) : input[i] = LF}) >= 2
    /\ \E k \in 1..Len(seqs) : Len(seqs[k].data) > 0
    /\ ToCRLF(input) # input

HasBreakByte(x) == \E i \in 1..Len(x) : x[i] \in {CR, LF}

StrData ==
    UNION {[1..n -> Residues] : n \in 0..MaxData}
        \cup {Pattern(DefaultLineLength), Pattern(DefaultLineLength + 1)}

\* the record Scanner.Sequence returns for the file ">C\nA\n"
ScannedSeq == Sequence(ScanSequence(NewScanner(<<GT, 67, LF, 65, LF>>)).s).seq

StrSeqs ==
    {NewSequence(h, d) : h \in {<<>>, <<65>>}, d \in StrData} \cup {ScannedSeq}

\* A caller with two Sequences from NewSequence that sets the line length of
\* the first, compares them and serializes the first.
InitStr ==
    /\ NoScanner
    /\ seqs \in [1..2 -> StrSeqs]
    /\ pc = "seq"
    /\ heap = <<>>
    /\ sdata = NilSlice
    /\ objs = <<>>
    /\ lines = <<>>
    /\ flushed = <<>>
    /\ args = NoArgs
    /\ res = NoRes
    /\ dic = NilDic

\* seqs[1].SetLineLength(l)
StrSetLineLength(l) ==
    /\ seqs' = [seqs EXCEPT ![1].lineLength = SetLineLength(l)]
    /\ res' = [op |-> "SetLineLength", a |-> 1, b |-> 1, val |-> l]
    /\ UNCHANGED <<dic, input, s, ret, pc, extra, memvars, linevars, args>>

\* seqs[i].Equals(seqs[j])
StrEquals(i, j) ==
    /\ res' = [op |-> "Equals", a |-> i, b |-> j, val |-> Equals(seqs[i], seqs[j])]
    /\ UNCHANGED <<dic, input, s, ret, seqs, pc, extra, memvars, linevars, args>>

\* seqs[1].String()
StrString ==
    /\ res' = [op |-> "String", a |-> 1, b |-> 1, val |-> String(seqs[1])]
    /\ UNCHANGED <<dic, input, s, ret, seqs, pc, extra, memvars, linevars, args>>

NextStr ==
    \/ \E l \in (-1)..MaxWidth : StrSetLineLength(l)
    \/ \E i, j \in 1..2 : StrEquals(i, j)
    \/ StrString

SpecStr == InitStr /\ [][NextStr]_vars

\* C18: the result of a.Equals(b) is true exactly when the headers are the
\* same and the data are the same bytes, whatever the two line lengths; it is
\* the result of b.Equals(a); and a.Equals(a) is true.
C18_EqualsIsHeaderAndData ==
    res.op = "Equals" =>
        LET a == seqs[res.a]
            b == seqs[res.b]
        IN /\ res.val = (a.header = b.header /\ a.data = b.data)
           /\ res.val = Equals(b, a)
           /\ (res.a = res.b => res.val)
           /\ Equals(a, a) /\ Equals(b, b)

\* two Sequences of different line lengths with the same header and the same
\* non-empty data have compared equal
C18_Witness ==
    /\ res.op = "Equals" /\ res.val /\ res.a # res.b
    /\ seqs[1].lineLength # seqs[2].lineLength
    /\ Len(seqs[1].data) > 1

NotLF(x) == x # LF

\* C19: String() of a Sequence with n > 0 data bytes and line length w is
\* '>' header LF and then ceil(n/w) lines separated by single LFs, all of w
\* bytes but the last, which has 1 to w bytes; the output does not end with
\* LF, and the data part without its LFs is the data.
C19_StringLayout ==
    (res.op = "String" /\ Len(seqs[res.a].data) > 0) =>
        LET q == seqs[res.a]
            n == Len(q.data)
            w == q.lineLength
            out == res.val
            pre == <<GT>> \o q.header \o <<LF>>
            body == SubSeq(out, Len(pre) + 1, Len(out))
            P == {i \in 1..Len(body) : body[i] = LF}
            m == Cardinality(P) + 1
            Pos(k) == IF k = 0 THEN 0
                      ELSE IF k = m THEN Len(body) + 1
                      ELSE CHOOSE i \in P : Cardinality({j \in P : j <= i}) = k
            LineLen(k) == Pos(k) - Pos(k - 1) - 1
        IN /\ Len(out) >= Len(pre)
           /\ SubSeq(out, 1, Len(pre)) = pre
           /\ m = (IF n % w = 0 THEN n \div w ELSE (n \div w) + 1)
           /\ \A k \in 1..(m - 1) : LineLen(k) = w
           /\ LineLen(m) >= 1 /\ LineLen(m) <= w
           /\ out[Len(out)] # LF
           /\ SelectSeq(body, NotLF) = q.data

\* String() has wrapped data that is a whole number of lines, more than one
C19_Witness ==
    /\ res.op = "String"
    /\ Len(seqs[1].data) > seqs[1].lineLength
    /\ Len(seqs[1].data) % seqs[1].lineLength = 0
    /\ Len(res.val) > Len(seqs[1].data) + Len(seqs[1].header) + 2

\* C20 as claimed: String() of a Sequence with empty data is '>', the header
\* and a line break.
C20_EmptyDataHeaderLine ==
    (res.op = "String" /\ seqs[res.a].data = <<>>) =>
        res.val = <<GT>> \o seqs[res.a].header \o <<LF>>

\* C20, amended: String() of a Sequence with empty data is '>' and the
\* header, with no line break after it.
C20_EmptyDataNoBreak ==
    (res.op = "String" /\ seqs[res.a].data = <<>>) =>
        res.val = <<GT>> \o seqs[res.a].header

\* String() of a Sequence with empty header and empty data has returned ">"
C20_Witness ==
    /\ res.op = "String"
    /\ seqs[1].data = <<>> /\ seqs[1].header = <<>>
    /\ res.val = <<GT>>

\* C21: the line length of every Sequence from NewSequence, Scanner.Sequence
\* and SetLineLength is at least 1; SetLineLength(n) has stored n when
\* n >= 1 and MaxInt64 when n < 1; and with MaxInt64, String() is '>', the
\* header, a line feed and the whole data on one line.
C21_LineLengthAtLeastOne ==
    /\ \A i \in DOMAIN seqs : seqs[i].lineLength >= 1
    /\ res.op = "SetLineLength" =>
           seqs[1].lineLength = (IF res.val >= 1 THEN res.val ELSE MaxInt64)
    /\ (res.op = "String" /\ seqs[1].lineLength = MaxInt64
            /\ Len(seqs[1].data) > 0) =>
           res.val = <<GT>> \o seqs[1].header \o <<LF>> \o seqs[1].data

\* String() has written data longer than the default line length on one
\* line, after a SetLineLength with a length below 1
C21_Witness ==
    /\ res.op = "String"
    /\ seqs[1].lineLength = MaxInt64
    /\ Len(seqs[1].data) > DefaultLineLength
    /\ res.val = <<GT>> \o seqs[1].header \o <<LF>> \o seqs[1].data

\* ------------------------------------------- NewSequence and the caller's d
\* the caller's buffers: a canonical and a non-canonical byte in every order
BufData == UNION {[1..n -> {99, 78}] : n \in 0..MaxBuf}

\* A caller that builds two Sequences from one buffer d, writes to d and
\* transforms the first Sequence in place.
InitSeq ==
    /\ NoScanner
    /\ seqs = <<>>
    /\ pc = "buf"
    /\ \E b \in BufData :
          /\ heap = <<b>>
          /\ \E h \in {<<>>, <<65>>} : args = [h |-> h, d |-> [arr |-> 1, len |-> Len(b)]]
    /\ sdata = NilSlice
    /\ objs = <<>>
    /\ lines = <<>>
    /\ flushed = <<>>
    /\ res = NoRes
    /\ dic = NilDic

\* s1 := NewSequence(h, d); s2 := NewSequence(h, d)
SeqNew ==
    /\ Len(objs) < 2
    /\ LET m == NewSequenceMem(heap, args.h, args.d) IN
       /\ heap' = m.heap
       /\ objs' = Append(objs, m.obj)
    /\ UNCHANGED <<dic, input, s, ret, seqs, pc, extra, sdata, linevars, seqvars>>

\* d[i] = 'A'
SeqWrite(i) ==
    /\ i \in 1..args.d.len
    /\ heap' = [heap EXCEPT ![args.d.arr][i] = 65]
    /\ UNCHANGED <<dic, input, s, ret, seqs, pc, extra, sdata, objs, linevars, seqvars>>

\* a method of s1 that writes x over the elements of s1.data
SeqInPlace(x) ==
    /\ heap' = MemWrite(heap, objs[1].data, x)
    /\ UNCHANGED <<dic, input, s, ret, seqs, pc, extra, sdata, objs, linevars, seqvars>>

SeqReverse == Len(objs) >= 1 /\ SeqInPlace(Reverse(View(heap, objs[1].data)))

SeqComplement ==
    /\ Len(objs) >= 1
    /\ LET o == Complement(dic, View(heap, objs[1].data)) IN
       /\ heap' = MemWrite(heap, objs[1].data, o.data)
       /\ dic' = o.dic
    /\ UNCHANGED <<input, s, ret, seqs, pc, extra, sdata, objs, linevars, seqvars>>

SeqShuffle ==
    /\ Len(objs) >= 1
    /\ LET d == View(heap, objs[1].data) IN
       \E x \in Shuffle(d) : SeqInPlace(x)

\* s1.Clean(): the kept bytes move to the front of the same array, and
\* s1.data is resliced to them
SeqClean ==
    /\ Len(objs) >= 1
    /\ LET x == Clean(View(heap, objs[1].data)) IN
       /\ heap' = MemWrite(heap, objs[1].data, x)
       /\ objs' = [objs EXCEPT ![1].data.len = Len(x)]
    /\ UNCHANGED <<dic, input, s, ret, seqs, pc, extra, sdata, linevars, seqvars>>

\* s1.DataToUpper(): s1.data is the new slice bytes.ToUpper returns.  The
\* array s1.data had is garbage from then on unless d or s2 share it; the
\* new array takes its place in the heap then.
SeqDataToUpper ==
    /\ Len(objs) >= 1
    /\ LET old == objs[1].data
           x == ToUpper(View(heap, old))
           shared == \/ args.d.arr = old.arr
                     \/ \E k \in 2..Len(objs) : objs[k].data.arr = old.arr
       IN IF shared
          THEN /\ heap' = Append(heap, x)
               /\ objs' = [objs EXCEPT ![1].data = [arr |-> Len(heap) + 1, len |-> Len(x)]]
          ELSE /\ heap' = [heap EXCEPT ![old.arr] = x]
               /\ objs' = [objs EXCEPT ![1].data = [arr |-> old.arr, len |-> Len(x)]]
    /\ UNCHANGED <<dic, input, s, ret, seqs, pc, extra, sdata, linevars, seqvars>>

SeqTransform ==
    SeqReverse \/ SeqComplement \/ SeqShuffle \/ SeqClean \/ SeqDataToUpper

NextSeq ==
    \/ SeqNew
    \/ \E i \in 1..MaxBuf : SeqWrite(i)
    \/ SeqReverse
    \/ SeqComplement
    \/ SeqShuffle
    \/ SeqClean
    \/ SeqDataToUpper

SpecSeq == InitSeq /\ [][NextSeq]_vars

\* C17: NewSequence(h, d) gives a Sequence with header h, the bytes of d and
\* line length 70, and leaves d and the Sequences built before as they were;
\* a write to d changes no Sequence; and Reverse, Complement, Shuffle, Clean
\* and DataToUpper of one Sequence change neither d nor the other Sequence.
C17_NewSequenceCopies ==
    [][/\ SeqNew =>
            /\ Val(heap', objs'[Len(objs')])
                   = [header |-> args.h, data |-> View(heap, args.d),
                      lineLength |-> DefaultLineLength]
            /\ View(heap', args.d) = View(heap, args.d)
            /\ \A k \in 1..Len(objs) : Val(heap', objs'[k]) = Val(heap, objs[k])
       /\ (\E i \in 1..MaxBuf : SeqWrite(i)) =>
            \A k \in 1..Len(objs) : Val(heap', objs'[k]) = Val(heap, objs[k])
       /\ SeqTransform =>
            /\ View(heap', args.d) = View(heap, args.d)
            /\ \A k \in 2..Len(objs) : Val(heap', objs'[k]) = Val(heap, objs[k])]_vars

\* two Sequences were built from d, d was written to and the first Sequence
\* was cleaned and otherwise changed: the three now differ
C17_Witness ==
    /\ Len(objs) = 2
    /\ objs[1].data.len < objs[2].data.len
    /\ objs[1].data.len > 0
    /\ View(heap, objs[1].data) # SubSeq(View(heap, objs[2].data), 1, objs[1].data.len)
    /\ View(heap, args.d) # View(heap, objs[2].data)
    /\ 65 \in {heap[args.d.arr][i] : i \in 1..args.d.len}

\* --------------------------------------------------- the Sequence methods
\* the data of the tests (ACCGT, GGC, AATAT)
TestData == {<<65, 67, 67, 71, 84>>, <<71, 71, 67>>, <<65, 65, 84, 65, 84>>}

\* the bytes short data are made of: A, g, X
OpsBytes == {65, 103, 88}

\* data of one Sequence: short strings, every letter of the complement
\* table alone and after an A, a byte that is no ASCII code, the test data
OpsData ==
    UNION {[1..n -> OpsBytes] : n \in 0..MaxData}
        \cup {<<ComplementF[i]>> : i \in 1..Len(ComplementF)}
        \cup {<<65, ComplementF[i]>> : i \in 1..Len(ComplementF)}
        \cup {<<255>>, <<97, 255>>}
        \cup TestData

NoVal == [class |-> "none", num |-> 0, den |-> 0]

NoOp == [op |-> "none", prevop |-> "none", before |-> <<>>, before2 |-> <<>>,
         pre |-> NewSequence(<<>>, <<>>), val |-> NoVal, calls |-> 0]

\* A caller with one Sequence from NewSequence that calls its methods in any
\* order, MaxCalls times; res holds the method called last, the one before
\* it, the data before each of the two calls and the number of calls.
InitOps ==
    /\ NoScanner
    /\ \E d \in OpsData : seqs = <<NewSequence(<<65>>, d)>>
    /\ pc = "ops"
    /\ heap = <<>>
    /\ sdata = NilSlice
    /\ objs = <<>>
    /\ lines = <<>>
    /\ flushed = <<>>
    /\ args = NoArgs
    /\ res = NoOp
    /\ dic = NilDic

\* a method named op has left the data d and returned v
OpsDone(op, d, v) ==
    /\ pc = "ops"
    /\ res.calls < MaxCalls
    /\ seqs' = [seqs EXCEPT ![1].data = d]
    /\ res' = [op |-> op, prevop |-> res.op, before |-> seqs[1].data,
               before2 |-> res.before, pre |-> seqs[1], val |-> v,
               calls |-> res.calls + 1]
    /\ UNCHANGED <<input, s, ret, pc, extra, memvars, linevars, args>>

OpsReverse == OpsDone("Reverse", Reverse(seqs[1].data), NoVal) /\ UNCHANGED dic

OpsComplement ==
    LET o == Complement(dic, seqs[1].data)
    IN OpsDone("Complement", o.data, NoVal) /\ dic' = o.dic

OpsReverseComplement ==
    LET o == ReverseComplement(dic, seqs[1].data)
    IN OpsDone("ReverseComplement", o.data, NoVal) /\ dic' = o.dic

\* the caller shuffles first, if at all: the shuffled data then goes through
\* the other methods
OpsShuffle ==
    /\ res.calls = 0
    /\ \E x \in Shuffle(seqs[1].data) : OpsDone("Shuffle", x, NoVal) /\ UNCHANGED dic

OpsClean == OpsDone("Clean", Clean(seqs[1].data), NoVal) /\ UNCHANGED dic

OpsDataToUpper ==
    OpsDone("DataToUpper", ToUpper(seqs[1].data), NoVal) /\ UNCHANGED dic

OpsGC == OpsDone("GC", seqs[1].data, GC(seqs[1].data)) /\ UNCHANGED dic

\* The methods that write a field other than the data, and the ones that only
\* read: the record after the call is the one the method leaves behind.
OpsField(op, q, v) ==
    /\ pc = "ops"
    /\ res.calls < MaxCalls
    /\ seqs' = <<q>>
    /\ res' = [op |-> op, prevop |-> res.op, before |-> seqs[1].data,
               before2 |-> res.before, pre |-> seqs[1], val |-> v,
               calls |-> res.calls + 1]
    /\ UNCHANGED <<dic, input, s, ret, pc, extra, memvars, linevars, args>>

OpsSetLineLength ==
    \E l \in {0, MaxWidth} :
        OpsField("SetLineLength",
                 [seqs[1] EXCEPT !.lineLength = SetLineLength(l)], NoVal)

OpsAppendToHeader ==
    OpsField("AppendToHeader", AppendToHeader(seqs[1], <<66>>), NoVal)

OpsEquals ==
    OpsField("Equals", seqs[1],
             Equals(seqs[1], NewSequence(<<65>>, seqs[1].data)))

OpsString == OpsField("String", seqs[1], String(seqs[1]))

OpsLength == OpsField("Length", seqs[1], Length(seqs[1].data))

NextOps ==
    \/ OpsReverse
    \/ OpsComplement
    \/ OpsReverseComplement
    \/ OpsShuffle
    \/ OpsClean
    \/ OpsDataToUpper
    \/ OpsGC
    \/ OpsSetLineLength
    \/ OpsAppendToHeader
    \/ OpsEquals
    \/ OpsString
    \/ OpsLength

SpecOps == InitOps /\ [][NextOps]_vars

\* C22: after Reverse() the data is the data before in reverse order
\* (new[i] = old[n-1-i], for every length), and after two calls of Reverse()
\* in a row it is the data before the first.
C22_ReverseReverses ==
    res.op = "Reverse" =>
        LET d == seqs[1].data
            n == Len(res.before)
        IN /\ Len(d) = n
           /\ \A i \in 1..n : d[i] = res.before[n + 1 - i]
           /\ res.prevop = "Reverse" => d = res.before2

\* Reverse() has been called twice in a row on data of odd length that is
\* no palindrome
C22_Witness ==
    /\ res.op = "Reverse" /\ res.prevop = "Reverse"
    /\ Len(seqs[1].data) = 3
    /\ res.before # seqs[1].data
    /\ res.before2 = seqs[1].data

\* the table ACGTUWSMKRYBDHVN -> TGCAAWSKMYRVHDBN as pairs of bytes
UpperTable ==
    {<<65, 84>>, <<67, 71>>, <<71, 67>>, <<84, 65>>, <<85, 65>>, <<87, 87>>,
     <<83, 83>>, <<77, 75>>, <<75, 77>>, <<82, 89>>, <<89, 82>>, <<66, 86>>,
     <<68, 72>>, <<72, 68>>, <<86, 66>>, <<78, 78>>}

\* the image of the byte c: by the table for an upper-case letter of it, by
\* the same table in lower case for a lower-case one, c otherwise
TableImage(c) ==
    IF \E e \in UpperTable : e[1] = c
    THEN (CHOOSE e \in UpperTable : e[1] = c)[2]
    ELSE IF \E e \in UpperTable : e[1] + 32 = c
    THEN (CHOOSE e \in UpperTable : e[1] + 32 = c)[2] + 32
    ELSE c

C24_ReverseThenComplement ==
    res.op = "ReverseComplement" =>
        LET d == seqs[1].data
            n == Len(res.before)
        IN /\ Len(d) = n
           /\ \A i \in 1..n : d[i] = TableImage(res.before[n + 1 - i])
           /\ d = Complement(NilDic, Reverse(res.before)).data
           /\ res.before = <<65, 67, 67, 71, 84>> => d = <<65, 67, 71, 71, 84>>

\* ReverseComplement() has turned ACCGT into ACGGT
C24_Witness ==
    /\ res.op = "ReverseComplement"
    /\ res.before = <<65, 67, 67, 71, 84>>
    /\ seqs[1].data = <<65, 67, 71, 71, 84>>

\* the letters of the complement table, of either case
InTable(c) == \E e \in UpperTable : e[1] = c \/ e[1] + 32 = c

\* C25 as claimed: after two calls of ReverseComplement() in a row on data
\* over the letters of the table, the data is the data before the first.
C25_TwiceRestores ==
    (/\ res.op = "ReverseComplement" /\ res.prevop = "ReverseComplement"
     /\ \A i \in 1..Len(res.before2) : InTable(res.before2[i]))
        => seqs[1].data = res.before2

\* C25, amended: the same for data over the letters of the table other than
\* U and u.
C25_TwiceRestoresWithoutU ==
    (/\ res.op = "ReverseComplement" /\ res.prevop = "ReverseComplement"
     /\ \A i \in 1..Len(res.before2) :
           InTable(res.before2[i]) /\ res.before2[i] \notin {85, 117})
        => seqs[1].data = res.before2

\* two calls of ReverseComplement() in a row have restored data of two
\* letters that the first call had changed, one of them an ambiguity code
C25_Witness ==
    /\ res.op = "ReverseComplement" /\ res.prevop = "ReverseComplement"
    /\ Len(res.before2) = 2
    /\ \A i \in 1..2 : InTable(res.before2[i]) /\ res.before2[i] \notin {85, 117}
    /\ \E i \in 1..2 : res.before2[i] \in {77, 109}
    /\ res.before # res.before2
    /\ seqs[1].data = res.before2

\* how often the byte c is in d
CountOf(d, c) == Cardinality({i \in 1..Len(d) : d[i] = c})

\* C26: after Shuffle(), whatever the random source returns, the data has
\* the length it had and holds every byte as often as before.
C26_ShufflePermutes ==
    res.op = "Shuffle" =>
        /\ Len(seqs[1].data) = Len(res.before)
        /\ \A c \in 0..(ByteCount - 1) :
              CountOf(seqs[1].data, c) = CountOf(res.before, c)

\* Shuffle() has turned ACCGT into GTACC (TestShuffle)
C26_Witness ==
    /\ res.op = "Shuffle"
    /\ res.before = <<65, 67, 67, 71, 84>>
    /\ seqs[1].data = <<71, 84, 65, 67, 67>>

\* C27: GC() of non-empty data is the number of bytes 'G' and 'C' divided by
\* the length (g and c do not count; ACCGT 3/5, GGC 3/3, AATAT 0/5), and
\* GC() of empty data is 0/0, no finite number.
C27_GCUpperCaseFraction ==
    res.op = "GC" =>
        LET d == seqs[1].data IN
        /\ d = res.before
        /\ res.val.num = CountOf(d, 71) + CountOf(d, 67)
        /\ res.val.den = Len(d)
        /\ res.val.class = (IF Len(d) > 0 THEN "finite" ELSE "NaN")
        /\ d = <<65, 67, 67, 71, 84>> => res.val.num = 3 /\ res.val.den = 5
        /\ d = <<71, 71, 67>> => res.val.num = res.val.den
        /\ d = <<65, 65, 84, 65, 84>> => res.val.num = 0 /\ res.val.den = 5

\* GC() has returned 0 for non-empty data that holds a g
C27_Witness ==
    /\ res.op = "GC"
    /\ CountOf(seqs[1].data, 103) > 0
    /\ res.val.class = "finite" /\ res.val.num = 0

\* GC() has been called on empty data
C27_WitnessEmpty ==
    res.op = "GC" /\ seqs[1].data = <<>> /\ res.val.class = "NaN"

\* the bytes that are one of A, C, G, T, a, c, g, t
IsACGT(c) == c \in {65, 67, 71, 84} \/ c - 32 \in {65, 67, 71, 84}

\* C28: after Clean() the data is the bytes A, C, G, T, a, c, g, t of the
\* data before, in their order and as they were; the length is their number;
\* and a Clean() that follows a Clean() leaves the data as it is.
C28_CleanKeepsACGT ==
    res.op = "Clean" =>
        /\ seqs[1].data = SelectSeq(res.before, IsACGT)
        /\ Length(seqs[1].data) =
              Cardinality({i \in 1..Len(res.before) : IsACGT(res.before[i])})
        /\ res.prevop = "Clean" => seqs[1].data = res.before

\* Clean() has removed a byte that stood before a lower-case g, and a second
\* Clean() has followed
C28_Witness ==
    /\ res.op = "Clean" /\ res.prevop = "Clean"
    /\ Len(res.before2) = 3 /\ res.before2[1] = 88 /\ res.before2[3] = 103
    /\ Len(seqs[1].data) < 3
    /\ seqs[1].data[Len(seqs[1].data)] = 103

\* C29 as claimed: after DataToUpper() every byte a-z of the data is the
\* byte A-Z for it, every other byte is as before, and the length is kept.
C29_UpperByteForByte ==
    res.op = "DataToUpper" =>
        /\ Len(seqs[1].data) = Len(res.before)
        /\ \A i \in 1..Len(res.before) :
              seqs[1].data[i] =
                  (IF res.before[i] >= 97 /\ res.before[i] <= 122
                   THEN res.before[i] - 32 ELSE res.before[i])

\* what holds of DataToUpper(): the claim for data of ASCII bytes
C29_UpperOfASCII ==
    (res.op = "DataToUpper" /\ \A i \in 1..Len(res.before) : res.before[i] < RuneSelf)
        => /\ Len(seqs[1].data) = Len(res.before)
           /\ \A i \in 1..Len(res.before) :
                 seqs[1].data[i] =
                     (IF res.before[i] >= 97 /\ res.before[i] <= 122
                      THEN res.before[i] - 32 ELSE res.before[i])

\* DataToUpper() has made three bytes of the one byte 255
C29_Grown ==
    res.op = "DataToUpper" /\ res.before = <<255>> /\ Len(seqs[1].data) = 3

\* ------------------------------------------------------------ Concatenate
\* the sentinel '|' of the tests
Bar == 124

\* the Sequences of a slice: with and without header, with and without
\* data, and one with a line length of its own
CatSeqs ==
    {NewSequence(h, d) : h \in {<<>>, <<65>>}, d \in {<<>>, <<67>>}}
        \cup {[NewSequence(<<65>>, <<67>>) EXCEPT !.lineLength = SetLineLength(2)]}

NoCat == [op |-> "none", sentinel |-> 0, kind |-> "none",
          val |-> NewSequence(<<>>, <<>>), stderr |-> <<>>]

\* A caller with a slice of up to MaxCat Sequences that calls Concatenate
\* with no sentinel (0) or with '|', and sets the line length of the Sequence
\* it got. res.val is the Sequence the returned pointer leads to, res.stderr
\* what the call wrote to stderr.
InitCat ==
    /\ NoScanner
    /\ seqs \in UNION {[1..n -> CatSeqs] : n \in 0..MaxCat}
    /\ pc = "cat"
    /\ heap = <<>>
    /\ sdata = NilSlice
    /\ objs = <<>>
    /\ lines = <<>>
    /\ flushed = <<>>
    /\ args = NoArgs
    /\ res = NoCat
    /\ dic = NilDic

\* Concatenate(seqs, sentinel)
CallConcatenate(sentinel) ==
    /\ pc = "cat"
    /\ LET o == Concatenate(seqs, sentinel) IN
       res' = [op |-> "Concatenate", sentinel |-> sentinel, kind |-> o.kind,
               val |-> o.seq, stderr |-> o.stderr]
    /\ UNCHANGED <<dic, input, s, ret, seqs, pc, extra, memvars, linevars, args>>

\* c.SetLineLength(l) for the pointer c that Concatenate returned: the
\* Sequence written is seqs[1] itself when c is that element
CatSetLineLength(l) ==
    /\ pc = "cat"
    /\ res.kind \in {"new", "same"}
    /\ res' = [res EXCEPT !.op = "SetLineLength",
                          !.val.lineLength = SetLineLength(l)]
    /\ seqs' = IF res.kind = "same"
               THEN [seqs EXCEPT ![1].lineLength = SetLineLength(l)]
               ELSE seqs
    /\ UNCHANGED <<dic, input, s, ret, pc, extra, memvars, linevars, args>>

NextCat ==
    \/ \E sentinel \in {0, Bar} : CallConcatenate(sentinel)
    \/ \E l \in {0, 1} : CatSetLineLength(l)

SpecCat == InitCat /\ [][NextCat]_vars

\* the pieces with sep between each two of them
RECURSIVE Glue(_, _)
Glue(pieces, sep) ==
    IF Len(pieces) = 1 THEN pieces[1]
    ELSE Glue(WithoutLast(pieces), sep) \o sep \o pieces[Len(pieces)]

\* C30: Concatenate of N > 1 Sequences returns a new Sequence; its header is
\* the headers in the order of the slice, its data the data, with the
\* sentinel between each two pieces (N-1 times, none before the first piece
\* or after the last) when the sentinel is not 0, and nothing between them
\* when it is 0.
C30_ConcatenateGlues ==
    (res.op = "Concatenate" /\ Len(seqs) > 1) =>
        LET N == Len(seqs)
            sep == IF res.sentinel # 0 THEN <<res.sentinel>> ELSE <<>>
            hs == [i \in 1..N |-> seqs[i].header]
            ds == [i \in 1..N |-> seqs[i].data]
        IN /\ res.kind = "new"
           /\ res.val.header = Glue(hs, sep)
           /\ res.val.data = Glue(ds, sep)
           /\ Len(res.val.header) = SumLen(hs) + (N - 1) * Len(sep)
           /\ Len(res.val.data) = SumLen(ds) + (N - 1) * Len(sep)

\* Concatenate with '|' of three Sequences, the middle one without data, has
\* returned data with two '|' in a row
C30_Witness ==
    /\ res.op = "Concatenate" /\ res.sentinel = Bar
    /\ Len(seqs) = 3
    /\ res.val.data = <<67, Bar, Bar, 67>>
    /\ res.val.header = <<65, Bar, 65, Bar, 65>>

\* Concatenate with sentinel 0 has returned the data of two Sequences, one
\* after the other
C30_WitnessZero ==
    /\ res.op = "Concatenate" /\ res.sentinel = 0
    /\ Len(seqs) = 2
    /\ res.val.data = <<67, 67>>

C32_SingleIsSameObject ==
    /\ (res.op = "Concatenate" /\ Len(seqs) = 1) => res.kind = "same"
    /\ res.kind = "same" => Len(seqs) = 1 /\ res.val = seqs[1]

\* Concatenate with '|' has returned the one element of the slice, which has
\* a line length of its own
C32_Witness ==
    /\ res.op = "Concatenate" /\ res.sentinel = Bar
    /\ res.kind = "same"
    /\ seqs[1].lineLength \notin {DefaultLineLength, MaxInt64}
    /\ res.val = seqs[1]

\* SetLineLength through the returned pointer has changed the element
C32_WitnessWritten ==
    /\ res.op = "SetLineLength" /\ res.kind = "same"
    /\ seqs[1].lineLength = MaxInt64

\* ----------------------------------------------- skipped Sequence calls
\* a is the beginning of b
IsPrefix(a, b) == Len(a) <= Len(b) /\ SubSeq(b, 1, Len(a)) = a

\* a ScanSequence call that follows a ScanSequence call that returned true
\* with data in the buffer, no Sequence call between the two
SecondScanSequence ==
    /\ ApiScanSequence
    /\ pc = "ScanSequence" /\ ret = "true"
    /\ s.data # <<>>
    /\ pc' # "panic"

\* C33 as claimed: when ScanSequence is called again after a true result and
\* without a Sequence call, the data of the record that was not retrieved is
\* lost: it is not in the buffer the next Sequence call returns.
C33_UnretrievedDataLost ==
    [][SecondScanSequence => ~IsPrefix(s.data, s'.data)]_vars

\* C33, amended: the data of the record that was not retrieved stays in the
\* buffer, the data of the next record is appended to it, and only the
\* header is replaced by the next one: the next Sequence call returns both
\* records' data under the header of the second.
C33_UnretrievedDataKept ==
    [][SecondScanSequence =>
        /\ IsPrefix(s.data, s'.data)
        /\ ret' = "true" => s'.previousHeader = s.currentHeader
        /\ Sequence(s').seq.data = s'.data]_vars

\* the file ">\nCA\n>A\nCA\n"
TwoRecords == JoinLines(<<<<GT>>, <<67, 65>>, <<GT, 65>>, <<67, 65>>>>)

\* ScanSequence has returned true twice (the header A was taken, so the
\* first call ended at it), no record was retrieved in between, and the
\* Sequence call has returned the data of both records under the header A
C33_Witness ==
    /\ input = TwoRecords
    /\ pc = "Sequence"
    /\ Len(seqs) = 1
    /\ seqs[1].header = <<65>>
    /\ seqs[1].data = <<67, 65, 67, 65>>

\* ------------------------------------------ data before the first header
\* the lines before the first header line, one after the other
RECURSIVE LeadingData(_)
LeadingData(ls) ==
    IF Len(ls) = 0 \/ IsHeaderLine(Head(ls)) THEN <<>>
    ELSE Head(ls) \o LeadingData(Tail(ls))

\* C34: when an input begins with data lines and the loop retrieves a
\* record, the first record has the text of the first header line as its
\* header, and its data begins with the data lines that stand before that
\* header line.
C34_LeadingDataKept ==
    (Len(seqs) >= 1 /\ CROnlyInBreaks(input)) =>
        LET ls == Lines(input)
            k == CHOOSE i \in 1..Len(ls) :
                    IsHeaderLine(ls[i]) /\ \A j \in 1..(i - 1) : ~IsHeaderLine(ls[j])
        IN /\ HasHeaderLine(input)
           /\ seqs[1].header = Tail(ls[k])
           /\ IsPrefix(LeadingData(ls), seqs[1].data)

\* the loop has ended on an input of a data line, a header line and a data
\* line: the one record has the data of both data lines
C34_Witness ==
    /\ pc = "done"
    /\ Len(input) > 0 /\ input[1] \in Residues
    /\ Len(seqs) = 1
    /\ Len(LeadingData(Lines(input))) = 1
    /\ Len(seqs[1].data) = 2
    /\ seqs[1].data[1] = input[1]

\* ------------------------------------------------- concurrent Complement
\* dic = make([]byte, 256): all bytes are 0
ZeroDic == [v \in 1..ByteCount |-> 0]

\* for i, _ := range dic { dic[i] = byte(i) }
IdentityFill(dc) == [v \in 1..ByteCount |-> v - 1]

\* data of the two Sequences: A and X
RaceData == UNION {[1..n -> {65, 88}] : n \in 1..MaxRaceData}

\* where a goroutine is in Complement: at "check" (if dic == nil), "make",
\* "identity", "table" (the two loops of <<Construct dictionary>>), "loop"
\* before reading element i of its data, "done"
Goroutine(at, i) == [at |-> at, i |-> i]

\* Two goroutines, each calling Complement on a Sequence of its own; dic is
\* nil or was built by an earlier call. A step is one statement of the
\* method (a loop over dic is one step, the loop over the data one step for
\* each byte); the goroutines share dic without synchronization.
InitRace ==
    /\ NoScanner
    /\ seqs \in [1..2 -> {NewSequence(<<>>, d) : d \in RaceData}]
    /\ pc = "race"
    /\ heap = <<>>
    /\ sdata = NilSlice
    /\ objs = <<>>
    /\ lines = <<>>
    /\ flushed = <<>>
    /\ args = NoArgs
    /\ dic \in {NilDic, ConstructDictionary}
    /\ res = [g |-> <<Goroutine("check", 1), Goroutine("check", 1)>>,
              orig |-> <<seqs[1].data, seqs[2].data>>,
              built |-> dic # NilDic]

RaceFrame == UNCHANGED <<input, s, ret, pc, extra, memvars, linevars, args>>

\* if dic == nil
RaceCheck(k) ==
    /\ pc = "race" /\ res.g[k].at = "check"
    /\ res' = [res EXCEPT !.g[k].at = IF dic = NilDic THEN "make" ELSE "loop"]
    /\ UNCHANGED <<dic, seqs>>
    /\ RaceFrame

\* dic = make([]byte, 256)
RaceMake(k) ==
    /\ pc = "race" /\ res.g[k].at = "make"
    /\ dic' = ZeroDic
    /\ res' = [res EXCEPT !.g[k].at = "identity"]
    /\ UNCHANGED seqs
    /\ RaceFrame

\* for i, _ := range dic { dic[i] = byte(i) }
RaceIdentity(k) ==
    /\ pc = "race" /\ res.g[k].at = "identity"
    /\ dic' = IdentityFill(dic)
    /\ res' = [res EXCEPT !.g[k].at = "table"]
    /\ UNCHANGED seqs
    /\ RaceFrame

\* for i, v := range f { dic[v] = r[i] }
RaceTable(k) ==
    /\ pc = "race" /\ res.g[k].at = "table"
    /\ dic' = DicFill(dic, 1)
    /\ res' = [res EXCEPT !.g[k].at = "loop"]
    /\ UNCHANGED seqs
    /\ RaceFrame

\* one turn of "for i, v := range s.data { s.data[i] = dic[v] }"
RaceStep(k) ==
    /\ pc = "race" /\ res.g[k].at = "loop"
    /\ LET i == res.g[k].i IN
       IF i > Len(seqs[k].data)
       THEN /\ res' = [res EXCEPT !.g[k].at = "done"]
            /\ UNCHANGED seqs
       ELSE /\ seqs' = [seqs EXCEPT ![k].data[i] = dic[seqs[k].data[i] + 1]]
            /\ res' = [res EXCEPT !.g[k].i = i + 1]
    /\ UNCHANGED dic
    /\ RaceFrame

NextRace ==
    \E k \in 1..2 :
        \/ RaceCheck(k)
        \/ RaceMake(k)
        \/ RaceIdentity(k)
        \/ RaceTable(k)
        \/ RaceStep(k)

SpecRace == InitRace /\ [][NextRace]_vars

\* what Complement leaves of d when it runs alone
ComplementAlone(d) == Complement(NilDic, d).data

\* C35 as claimed: when both calls have returned, each Sequence has the data
\* a call on its own gives, whatever the interleaving and whether or not the
\* table was built before.
C35_ConcurrentAsAlone ==
    (pc = "race" /\ \A k \in 1..2 : res.g[k].at = "done") =>
        \A k \in 1..2 : seqs[k].data = ComplementAlone(res.orig[k])

\* what holds: with a table built before the two calls start, each
\* Sequence has the data a call on its own gives.
C35_BuiltBeforeAsAlone ==
    (pc = "race" /\ res.built /\ \A k \in 1..2 : res.g[k].at = "done") =>
        \A k \in 1..2 : seqs[k].data = ComplementAlone(res.orig[k])

\* both calls have returned, the table was not built before, and an A of
\* the second Sequence has become the byte 0
C35_ZeroByte ==
    /\ pc = "race" /\ ~res.built
    /\ \A k \in 1..2 : res.g[k].at = "done"
    /\ \E i \in 1..Len(res.orig[2]) : res.orig[2][i] = 65 /\ seqs[2].data[i] = 0

\* ---------------------------------------------------- a source that fails
\* byte sources that give up to MaxFailLen bytes and then fail with an
\* error other than io.EOF
FailInputs ==
    {p \o <<FailMark>> : p \in UNION {[1..n -> {GT, LF, 65}] : n \in 0..MaxFailLen}}

NoCall == [op |-> "none", ok |-> FALSE, val |-> <<>>, pre |-> NewScanner(<<>>)]

\* A caller of ScanLine, ScanSequence, Sequence (after a true ScanSequence)
\* and Flush on a source that fails; res holds the last call, its result and
\* the Scanner before it.
InitFail ==
    /\ input \in FailInputs
    /\ s = NewScanner(input)
    /\ ret = "none"
    /\ seqs = <<>>
    /\ pc = "start"
    /\ extra = 0
    /\ heap = <<>>
    /\ sdata = NilSlice
    /\ objs = <<>>
    /\ lines = <<>>
    /\ flushed = <<>>
    /\ args = NoArgs
    /\ res = NoCall
    /\ dic = NilDic

FailFrame == UNCHANGED <<dic, input, extra, memvars, linevars, args>>

FailScanLine ==
    /\ pc # "panic"
    /\ LET o == ScanLine(s) IN
       /\ s' = o.s
       /\ res' = [op |-> "ScanLine", ok |-> o.ok, val |-> <<>>, pre |-> s]
    /\ pc' = "ScanLine"
    /\ UNCHANGED <<ret, seqs>>
    /\ FailFrame

FailScanSequence ==
    /\ pc # "panic"
    /\ LET o == ScanSequence(s) IN
       /\ s' = o.s
       /\ res' = [op |-> "ScanSequence", ok |-> o.ret, val |-> <<>>, pre |-> s]
       /\ pc' = IF o.panic THEN "panic" ELSE "ScanSequence"
       /\ ret' = IF o.panic THEN "none" ELSE IF o.ret THEN "true" ELSE "false"
    /\ UNCHANGED seqs
    /\ FailFrame

FailSequence ==
    /\ pc = "ScanSequence" /\ ret = "true"
    /\ LET q == Sequence(s) IN
       /\ s' = q.s
       /\ seqs' = Append(seqs, q.seq)
       /\ res' = [op |-> "Sequence", ok |-> TRUE, val |-> <<>>, pre |-> s]
    /\ pc' = "Sequence"
    /\ UNCHANGED ret
    /\ FailFrame

FailFlush ==
    /\ pc # "panic"
    /\ res' = [op |-> "Flush", ok |-> TRUE, val |-> Flush(s), pre |-> s]
    /\ pc' = "Flush"
    /\ UNCHANGED <<s, ret, seqs>>
    /\ FailFrame

NextFail ==
    \/ FailScanLine
    \/ FailScanSequence
    \/ FailSequence
    \/ FailFlush

SpecFail == InitFail /\ [][NextFail]_vars

\* the whole lines of r: the bytes up to the last line feed
WholeLines(r) ==
    LET P == {i \in 1..Len(r) : r[i] = LF} IN
    IF P = {} THEN <<>> ELSE SubSeq(r, 1, CHOOSE i \in P : \A j \in P : j <= i)

\* C36: on a source that fails, a ScanLine call whose read fails returns
\* false; a ScanSequence call whose read fails sets lastSequence, returns
\* true exactly when a header line was taken by this or an earlier
\* ScanSequence call, and leaves the Scanner's data, headers and result as
\* the end of input after the last whole line would: the bytes read between
\* that line and the failure are not in the data; and Flush() after a failed
\* read returns nothing.
C36_ReadFailureIsExhaustion ==
    /\ (res.op = "ScanLine" /\ ReadBytes(res.pre.r, LF).err = "fail") =>
           ~res.ok /\ s.err = "fail"
    /\ (res.op = "ScanSequence" /\ pc # "panic" /\ ~res.pre.lastSequence
            /\ s.err = "fail") =>
           LET o == ScanSequence([res.pre EXCEPT !.r = WholeLines(res.pre.r)])
           IN /\ s.lastSequence
              /\ res.ok = (~res.pre.firstSequence \/ HasHeaderLine(WholeLines(res.pre.r)))
              /\ res.ok = o.ret
              /\ s.data = o.s.data
              /\ s.previousHeader = o.s.previousHeader
    /\ (res.op = "Flush" /\ s.err = "fail") => res.val = <<>>

\* ScanSequence has returned true on a source that failed in the middle of
\* a data line, after a header line and a whole data line: the data is that
\* of the whole line only
C36_Witness ==
    /\ res.op = "ScanSequence" /\ res.ok
    /\ s.err = "fail"
    /\ Len(s.line) > 0 /\ s.line[1] = 65
    /\ s.data = <<65>>
    /\ res.pre.r = input

\* Flush() has returned nothing although the failed read left bytes in the
\* line
C36_WitnessFlush ==
    /\ res.op = "Flush" /\ s.err = "fail"
    /\ Len(s.line) > 0
    /\ res.val = <<>>

\* ------------------------------------------------------------ termination
\* every byte string of at most MaxLiveLen bytes
LiveInputs == UNION {[1..n -> Bytes] : n \in 0..MaxLiveLen}

\* The ReadAll loop, with every turn of the for loop of ScanSequence a step of
\* its own: pc is "scan" before a ScanSequence call, "loop" inside its for
\* loop, "retrieve" before the Sequence call, "done" after false, "panic"
\* after a run-time panic.
InitLive ==
    /\ input \in LiveInputs
    /\ s = NewScanner(input)
    /\ ret = "none"
    /\ seqs = <<>>
    /\ pc = "scan"
    /\ extra = 0
    /\ heap = <<>>
    /\ sdata = NilSlice
    /\ objs = <<>>
    /\ lines = <<>>
    /\ flushed = <<>>
    /\ args = NoArgs
    /\ res = NoRes
    /\ dic = NilDic

LiveFrame == UNCHANGED <<dic, input, extra, memvars, linevars, seqvars>>

\* the call of ScanSequence: if s.lastSequence { return false }
LiveEnter ==
    /\ pc = "scan"
    /\ IF s.lastSequence
       THEN pc' = "done" /\ ret' = "false"
       ELSE pc' = "loop" /\ ret' = ret
    /\ UNCHANGED <<s, seqs>>
    /\ LiveFrame

\* the result of ScanSequence, as ret and the caller's next position
LiveReturn(o) ==
    /\ s' = o.s
    /\ ret' = IF o.panic THEN ret ELSE IF o.ret THEN "true" ELSE "false"
    /\ pc' = IF o.panic THEN "panic" ELSE IF o.ret THEN "retrieve" ELSE "done"

\* one turn of "for s.ScanLine() { ... }", or the statements after the loop
\* when ScanLine returns false
LiveIterate ==
    /\ pc = "loop"
    /\ LET sl == ScanLine(s)
           t == sl.s
           u == [t EXCEPT !.previousHeader = t.currentHeader]
       IN
       IF ~sl.ok THEN LiveReturn(AtEnd(t))
       ELSE IF t.isHeader
       THEN IF Len(t.line) < 1
            THEN LiveReturn([s |-> u, ret |-> FALSE, panic |-> TRUE])
            ELSE IF u.firstSequence
            THEN /\ s' = [u EXCEPT !.currentHeader = Tail(t.line),
                                   !.firstSequence = FALSE]
                 /\ UNCHANGED <<ret, pc>>
            ELSE LiveReturn([s |-> [u EXCEPT !.currentHeader = Tail(t.line)],
                             ret |-> TRUE, panic |-> FALSE])
       ELSE /\ s' = [t EXCEPT !.data = t.data \o t.line]
            /\ UNCHANGED <<ret, pc>>
    /\ UNCHANGED seqs
    /\ LiveFrame

\* the loop body: s = append(s, sc.Sequence())
LiveSequence ==
    /\ pc = "retrieve"
    /\ LET q == Sequence(s) IN
       /\ s' = q.s
       /\ seqs' = Append(seqs, q.seq)
    /\ pc' = "scan"
    /\ UNCHANGED ret
    /\ LiveFrame

NextLive == LiveEnter \/ LiveIterate \/ LiveSequence

\* the caller and the loop take their next step whenever they have one
SpecLive == InitLive /\ [][NextLive]_vars /\ WF_vars(NextLive)

\* the steps of the loop give what ScanLoop gives
LiveIsReadAll ==
    /\ pc = "done" => (seqs = ReadAll(input).seqs /\ ~ReadAll(input).panic)
    /\ pc = "panic" => (seqs = ReadAll(input).seqs /\ ReadAll(input).panic)

\* the number of header lines of an input
HeaderCount(b) == Cardinality({i \in 1..Len(Lines(b)) : IsHeaderLine(Lines(b)[i])})

\* C37 as claimed: on every input the loop "for ScanSequence() { Sequence() }"
\* comes to the point where ScanSequence has returned false.
C37_LoopGetsFalse == <>(pc = "done")

\* C37, the calls: no ScanSequence call ends in a run-time panic.
C37_ReturnsNormally == pc # "panic"

\* what holds of C37: ScanSequence returns true at most as often as the
\* input has header lines
C37_TrueAtMostHeaders ==
    CROnlyInBreaks(input) =>
        Len(seqs) + (IF pc = "retrieve" THEN 1 ELSE 0) <= HeaderCount(input)

\* what holds of C37: unless a call panics, the loop gets false
C37_LoopEndsOrPanics == <>(pc \in {"done", "panic"})

\* ------------------------------------------ the bufio.Scanner version
\* bufio.Scanner.Scan with the default split function (bufio.ScanLines): the
\* bytes up to the next line feed, or the bytes left at the end of the input
\* when there are any, without one trailing CR
OldScan(r) ==
    LET i == IndexByte(r, LF) IN
    IF Len(r) = 0 THEN [ok |-> FALSE, token |-> <<>>, r |-> r]
    ELSE IF i > 0
    THEN [ok |-> TRUE, token |-> StripCR(SubSeq(r, 1, i - 1)),
          r |-> SubSeq(r, i + 1, Len(r))]
    ELSE [ok |-> TRUE, token |-> StripCR(r), r |-> <<>>]

\* NewScanner of the bufio.Scanner version
OldNewScanner(b) ==
    [r |-> b, line |-> <<>>, isHeader |-> FALSE, lastSequence |-> FALSE,
     previousHeader |-> <<>>, currentHeader |-> <<>>, firstSequence |-> TRUE,
     data |-> <<>>]

\* ScanLine of the bufio.Scanner version: scans until a line is not empty
RECURSIVE OldScanLine(_)
OldScanLine(sc) ==
    LET o == OldScan(sc.r)
        t == [sc EXCEPT !.r = o.r, !.line = o.token]
    IN
    IF ~o.ok THEN [s |-> t, ok |-> FALSE]
    ELSE IF Len(o.token) > 0
    THEN [s |-> [t EXCEPT !.isHeader = (o.token[1] = GT)], ok |-> TRUE]
    ELSE OldScanLine(t)

\* the for loop of ScanSequence of the bufio.Scanner version, and the
\* statements after it
RECURSIVE OldScanLoop(_)
OldScanLoop(sc) ==
    LET sl == OldScanLine(sc)
        t == sl.s
    IN
    IF ~sl.ok
    THEN LET c == [t EXCEPT !.lastSequence = TRUE,
                            !.previousHeader = t.currentHeader]
         IN [s |-> c, ret |-> ~c.firstSequence]
    ELSE IF t.isHeader
    THEN LET v == [t EXCEPT !.previousHeader = t.currentHeader,
                            !.currentHeader = Tail(t.line)]
         IN IF v.firstSequence
            THEN OldScanLoop([v EXCEPT !.firstSequence = FALSE])
            ELSE [s |-> v, ret |-> TRUE]
    ELSE OldScanLoop([t EXCEPT !.data = t.data \o t.line])

\* ScanSequence of the bufio.Scanner version
OldScanSequence(sc) ==
    IF sc.lastSequence THEN [s |-> sc, ret |-> FALSE] ELSE OldScanLoop(sc)

\* the records of "for sc.ScanSequence() { sc.Sequence() }" with the
\* bufio.Scanner version
RECURSIVE OldReadAllLoop(_, _)
OldReadAllLoop(sc, acc) ==
    LET o == OldScanSequence(sc) IN
    IF o.ret
    THEN OldReadAllLoop([o.s EXCEPT !.data = <<>>],
                        Append(acc, NewSequence(o.s.previousHeader, o.s.data)))
    ELSE acc

OldReadAll(b) == OldReadAllLoop(OldNewScanner(b), <<>>)

\* C38 as claimed: on every input the loop of the bufio.Reader version ends
\* normally with the records the loop of the bufio.Scanner version yields.
C38_SameRecordsAsOld ==
    Ended => (pc = "done" /\ seqs = OldReadAll(input))

\* what holds of C38: the two versions yield the same records on an input
\* that ends with a line break, whose CRs are in CR LF breaks and on which
\* the loop of the bufio.Reader version does not panic
C38_SameOnTerminated ==
    (pc = "done" /\ CROnlyInBreaks(input) /\ (input = <<>> \/ EndsWithBreak(input)))
        => seqs = OldReadAll(input)

\* the bufio.Scanner version yields the records of the wire format
C38_OldYieldsWireRecords ==
    Conforming(input) => OldReadAll(input) = RefRecords(input)

\* ---- the frame of the Sequence methods ----

DataMethods ==
    {"Reverse", "Complement", "ReverseComplement", "Shuffle", "Clean",
     "DataToUpper"}

ReadMethods == {"Equals", "String", "Length", "GC"}

\* C39: Reverse, Complement, ReverseComplement, Shuffle, Clean and DataToUpper
\* leave the header and the line length as they were; SetLineLength leaves the
\* header and the data; AppendToHeader leaves the data and the line length;
\* Equals, String, Length and GC leave the whole Sequence as it was.
C39_MethodFrames ==
    pc = "ops" /\ res.calls > 0 =>
        /\ res.op \in DataMethods =>
              /\ seqs[1].header = res.pre.header
              /\ seqs[1].lineLength = res.pre.lineLength
        /\ res.op = "SetLineLength" =>
              /\ seqs[1].header = res.pre.header
              /\ seqs[1].data = res.pre.data
        /\ res.op = "AppendToHeader" =>
              /\ seqs[1].data = res.pre.data
              /\ seqs[1].lineLength = res.pre.lineLength
        /\ res.op \in ReadMethods => seqs[1] = res.pre

\* AppendToHeader has lengthened the header of a Sequence whose line length
\* an earlier SetLineLength had changed and whose data is not empty.
C39_Witness ==
    /\ pc = "ops"
    /\ res.op = "AppendToHeader"
    /\ res.prevop = "SetLineLength"
    /\ seqs[1].header = <<65, 66>>
    /\ seqs[1].lineLength = MaxWidth
    /\ seqs[1].data # <<>>

\* A method that writes the data has changed it after the line length had
\* been given another value.
C39_WitnessData ==
    /\ pc = "ops"
    /\ res.op \in DataMethods
    /\ res.prevop = "SetLineLength"
    /\ seqs[1].data # res.pre.data
    /\ seqs[1].lineLength = MaxInt64

====
